---- MODULE Spec2Model ----
(***************************************************************************)
(* A model of the `loads` package (eudoxys/resstock): the cached loaders   *)
(* RESstock, COMstock, Units, Floorarea, Weather, Industry, Agriculture    *)
(* and the sector aggregators Residential and Commercial.                  *)
(*                                                                         *)
(* Numbers are exact rationals <<n, d>> (d > 0, lowest terms); <<0, 0>> is *)
(* NaN and <<1, 0>>, <<-1, 0>> are the infinities, as numpy produces them. *)
(* Time is counted in ticks of the stock models' native sampling interval  *)
(* since 2018-01-01 00:00 UTC, on a calendar scaled down by the bounds.    *)
(***************************************************************************)
EXTENDS Integers, Sequences, FiniteSets, TLC

VARIABLES remote, cachedir, cache, legacy, last, ncalls, loader, pc, path, proc

\* the calls made one after the other by one process
callvars == <<remote, cachedir, cache, legacy, last, ncalls>>

\* two processes that call one loader at the same time
racevars == <<loader, pc, path, proc>>

vars == <<remote, cachedir, cache, legacy, last, ncalls, loader, pc, path, proc>>

-----------------------------------------------------------------------------
(* Bounds of the model *)

\* calls of the loaders and of main made in one behaviour
MaxCalls == 2

\* the remote data sets are scaled by a level 1..MaxLevel
MaxLevel == 1

\* native samples per hour (15-minute data: 4)
TicksPerHour == 2

\* hours per day (24) and days per year (365) of the scaled calendar
HoursPerDay == 2

DaysPerYear == 2

\* the offset of EST from UTC in hours (5)
EstOffsetHours == 1

HoursPerYear == DaysPerYear * HoursPerDay

TicksPerDay == HoursPerDay * TicksPerHour

TicksPerYear == HoursPerYear * TicksPerHour

None == "None"

\* `year` is None, or a number <<"int", y>> (a text would be <<"str", y>>)
NoYear == <<"None", 0>>

-----------------------------------------------------------------------------
(* Float arithmetic, as exact rationals with NaN and the infinities *)

Abs(x) == IF x < 0 THEN -x ELSE x

Sign(x) == IF x < 0 THEN -1 ELSE IF x > 0 THEN 1 ELSE 0

RECURSIVE GCD(_, _)
GCD(a, b) == IF b = 0 THEN a ELSE GCD(b, a % b)

Norm(n, d) ==
    IF d = 0 THEN <<Sign(n), 0>>
    ELSE LET g == GCD(Abs(n), Abs(d))
             s == Sign(d)
         IN  <<s * (n \div g), s * (d \div g)>>

R(n) == <<n, 1>>

Zero == <<0, 1>>

NaN == <<0, 0>>

IsNaN(x) == x = NaN

IsInf(x) == x[2] = 0 /\ x[1] # 0

IsFinite(x) == x[2] # 0

RNeg(a) == <<-a[1], a[2]>>

RAdd(a, b) ==
    IF IsNaN(a) \/ IsNaN(b) THEN NaN
    ELSE IF IsInf(a) THEN (IF IsInf(b) /\ b[1] # a[1] THEN NaN ELSE a)
    ELSE IF IsInf(b) THEN b
    ELSE LET g == GCD(a[2], b[2])
         IN  Norm(a[1] * (b[2] \div g) + b[1] * (a[2] \div g), (a[2] \div g) * b[2])

RMul(a, b) ==
    IF IsNaN(a) \/ IsNaN(b) THEN NaN
    ELSE IF IsInf(a) \/ IsInf(b)
         THEN (IF a[1] = 0 \/ b[1] = 0 THEN NaN ELSE <<Sign(a[1]) * Sign(b[1]), 0>>)
    ELSE LET g1 == GCD(Abs(a[1]), b[2])
             g2 == GCD(Abs(b[1]), a[2])
         IN  IF a[1] = 0 \/ b[1] = 0 THEN Zero
             ELSE Norm((a[1] \div g1) * (b[1] \div g2), (a[2] \div g2) * (b[2] \div g1))

RDiv(a, b) ==
    IF IsNaN(a) \/ IsNaN(b) THEN NaN
    ELSE IF IsInf(b) THEN (IF IsInf(a) THEN NaN ELSE Zero)
    ELSE IF b[1] = 0 THEN (IF a[1] = 0 THEN NaN ELSE <<Sign(a[1]), 0>>)
    ELSE RMul(a, <<Sign(b[1]) * b[2], Abs(b[1])>>)

RSub(a, b) == RAdd(a, RNeg(b))

RLess(a, b) == a[1] * b[2] < b[1] * a[2]

-----------------------------------------------------------------------------
(* The constants of the classes *)

\* RESstock.COLUMNS: source column -> data frame column
RESstock_COLUMNS ==
       ("out.electricity.bath_fan.energy_consumption" :> "elec_bathfan")
    @@ ("out.electricity.ceiling_fan.energy_consumption" :> "elec_ceilingfan")
    @@ ("out.electricity.clothes_dryer.energy_consumption" :> "elec_dryer")
    @@ ("out.electricity.clothes_washer.energy_consumption" :> "elec_washer")
    @@ ("out.electricity.cooking_range.energy_consumption" :> "elec_cooking")
    @@ ("out.electricity.cooling.energy_consumption" :> "elec_cooling")
    @@ ("out.electricity.dishwasher.energy_consumption" :> "elec_dishwasher")
    @@ ("out.electricity.ext_holiday_light.energy_consumption" :> "elec_holidaylight")
    @@ ("out.electricity.exterior_lighting.energy_consumption" :> "elec_extlighting")
    @@ ("out.electricity.extra_refrigerator.energy_consumption" :> "elec_extrarefrigerator")
    @@ ("out.electricity.fans_cooling.energy_consumption" :> "elec_coolingfan")
    @@ ("out.electricity.fans_heating.energy_consumption" :> "elec_heatingfan")
    @@ ("out.electricity.freezer.energy_consumption" :> "elec_freezer")
    @@ ("out.electricity.garage_lighting.energy_consumption" :> "elec_garagelighting")
    @@ ("out.electricity.heating.energy_consumption" :> "elec_heating")
    @@ ("out.electricity.heating_supplement.energy_consumption" :> "elec_heatingsupplement")
    @@ ("out.electricity.hot_tub_heater.energy_consumption" :> "elec_hottubheater")
    @@ ("out.electricity.hot_tub_pump.energy_consumption" :> "elec_hottubpump")
    @@ ("out.electricity.house_fan.energy_consumption" :> "elec_housefan")
    @@ ("out.electricity.interior_lighting.energy_consumption" :> "elec_interiorlighting")
    @@ ("out.electricity.plug_loads.energy_consumption" :> "elec_plugs")
    @@ ("out.electricity.pool_heater.energy_consumption" :> "elec_poolheater")
    @@ ("out.electricity.pool_pump.energy_consumption" :> "elec_poolpump")
    @@ ("out.electricity.pumps_cooling.energy_consumption" :> "elec_coolingpump")
    @@ ("out.electricity.pumps_heating.energy_consumption" :> "elec_heatingpump")
    @@ ("out.electricity.pv.energy_consumption" :> "elec_pv")
    @@ ("out.electricity.range_fan.energy_consumption" :> "elec_rangefan")
    @@ ("out.electricity.recirc_pump.energy_consumption" :> "elec_recircpump")
    @@ ("out.electricity.refrigerator.energy_consumption" :> "elec_refrigerator")
    @@ ("out.electricity.total.energy_consumption" :> "elec_total")
    @@ ("out.electricity.vehicle.energy_consumption" :> "elec_vehicle")
    @@ ("out.electricity.water_systems.energy_consumption" :> "elec_watersystems")
    @@ ("out.electricity.well_pump.energy_consumption" :> "elec_wellpump")
    @@ ("out.fuel_oil.heating.energy_consumption" :> "oil_heating")
    @@ ("out.fuel_oil.total.energy_consumption" :> "oil_total")
    @@ ("out.fuel_oil.water_systems.energy_consumption" :> "oil_watersystems")
    @@ ("out.natural_gas.clothes_dryer.energy_consumption" :> "gas_dryer")
    @@ ("out.natural_gas.cooking_range.energy_consumption" :> "gas_cooking")
    @@ ("out.natural_gas.fireplace.energy_consumption" :> "gas_fireplace")
    @@ ("out.natural_gas.grill.energy_consumption" :> "gas_grill")
    @@ ("out.natural_gas.heating.energy_consumption" :> "gas_heating")
    @@ ("out.natural_gas.hot_tub_heater.energy_consumption" :> "gas_hottubheater")
    @@ ("out.natural_gas.lighting.energy_consumption" :> "gas_lighting")
    @@ ("out.natural_gas.pool_heater.energy_consumption" :> "gas_poolheater")
    @@ ("out.natural_gas.total.energy_consumption" :> "gas_total")
    @@ ("out.natural_gas.water_systems.energy_consumption" :> "gas_watersystems")
    @@ ("out.propane.clothes_dryer.energy_consumption" :> "lng_dryer")
    @@ ("out.propane.cooking_range.energy_consumption" :> "lng_range")
    @@ ("out.propane.heating.energy_consumption" :> "lng_heating")
    @@ ("out.propane.total.energy_consumption" :> "lng_total")
    @@ ("out.propane.water_systems.energy_consumption" :> "lng_watersystems")
    @@ ("out.site_energy.total.energy_consumption" :> "total")
    @@ ("out.wood.heating.energy_consumption" :> "wood_heating")
    @@ ("out.wood.total.energy_consumption" :> "wood_total")

\* RESstock.BUILDING_TYPES, in the order of the dict
RESstock_BUILDING_TYPES == <<"RSD", "RSA", "RSM", "RMM", "RMH">>

\* RESstock.BUILDING_TYPES: code -> name in the URL
RESstock_BUILDING_NAMES ==
       ("RSD" :> "single-family_detached")
    @@ ("RSA" :> "single-family_attached")
    @@ ("RSM" :> "multi-family_with_2_-_4_units")
    @@ ("RMM" :> "multi-family_with_5plus_units")
    @@ ("RMH" :> "mobile_home")

\* COMstock.COLUMNS: source column -> data frame column
COMstock_COLUMNS ==
       ("out.district_cooling.cooling.energy_consumption" :> "district_cooling")
    @@ ("out.district_heating.heating.energy_consumption" :> "district_heating")
    @@ ("out.district_heating.water_systems.energy_consumption" :> "district_hotwater")
    @@ ("out.electricity.cooling.energy_consumption" :> "elec_cooling")
    @@ ("out.electricity.exterior_lighting.energy_consumption" :> "elec_exteriorlights")
    @@ ("out.electricity.fans.energy_consumption" :> "elec_fans")
    @@ ("out.electricity.heat_recovery.energy_consumption" :> "elec_heatrecovery")
    @@ ("out.electricity.heat_rejection.energy_consumption" :> "elec_heatrejection")
    @@ ("out.electricity.heating.energy_consumption" :> "elec_heating")
    @@ ("out.electricity.interior_equipment.energy_consumption" :> "elec_equipment")
    @@ ("out.electricity.interior_lighting.energy_consumption" :> "elec_interiorlights")
    @@ ("out.electricity.pumps.energy_consumption" :> "elec_pumps")
    @@ ("out.electricity.refrigeration.energy_consumption" :> "elec_refrigeration")
    @@ ("out.electricity.water_systems.energy_consumption" :> "elec_watersystems")
    @@ ("out.natural_gas.heating.energy_consumption" :> "gas_heating")
    @@ ("out.natural_gas.interior_equipment.energy_consumption" :> "gas_equipment")
    @@ ("out.natural_gas.water_systems.energy_consumption" :> "gas_watersystems")
    @@ ("out.district_cooling.total.energy_consumption" :> "district_totalcooling")
    @@ ("out.district_heating.total.energy_consumption" :> "district_totalheating")
    @@ ("out.electricity.total.energy_consumption" :> "elec_total")
    @@ ("out.natural_gas.total.energy_consumption" :> "gas_total")
    @@ ("out.other_fuel.heating.energy_consumption" :> "other_heating")
    @@ ("out.other_fuel.water_systems.energy_consumption" :> "other_watersystems")
    @@ ("out.other_fuel.total.energy_consumption" :> "other_total")
    @@ ("out.site_energy.total.energy_consumption" :> "total")

\* COMstock.BUILDING_TYPES, in the order of the dict
COMstock_BUILDING_TYPES == <<"CLF", "CLH", "CLL", "CLO", "CSH", "CMO", "CSE", "CSF", "CSR", "CMR", "CME", "CSL", "CSO", "CMW">>

\* COMstock.BUILDING_TYPES: code -> name in the URL
COMstock_BUILDING_NAMES ==
       ("CLF" :> "fullservicerestaurant")
    @@ ("CLH" :> "hospital")
    @@ ("CLL" :> "largehotel")
    @@ ("CLO" :> "largeoffice")
    @@ ("CSH" :> "outpatient")
    @@ ("CMO" :> "mediumoffice")
    @@ ("CSE" :> "primaryschool")
    @@ ("CSF" :> "quickservicerestaurant")
    @@ ("CSR" :> "retailstandalone")
    @@ ("CMR" :> "retailstripmall")
    @@ ("CME" :> "secondaryschool")
    @@ ("CSL" :> "smallhotel")
    @@ ("CSO" :> "smalloffice")
    @@ ("CMW" :> "warehouse")

\* Residential.COLLECT: category -> RESstock columns
Residential_COLLECT ==
       ("elec_baseload" :> {"elec_bathfan", "elec_ceilingfan", "elec_dryer", "elec_washer", "elec_cooking", "elec_dishwasher", "elec_holidaylight", "elec_extlighting", "elec_extrarefrigerator", "elec_freezer", "elec_garagelighting", "elec_hottubheater", "elec_hottubpump", "elec_housefan", "elec_interiorlighting", "elec_plugs", "elec_poolheater", "elec_poolpump", "elec_rangefan", "elec_recircpump", "elec_refrigerator", "elec_vehicle", "elec_watersystems", "elec_wellpump"})
    @@ ("elec_cooling" :> {"elec_cooling", "elec_coolingfan", "elec_coolingpump"})
    @@ ("elec_heating" :> {"elec_heating", "elec_heatingfan", "elec_heatingsupplement", "elec_heatingpump"})
    @@ ("elec_dg" :> {"elec_pv"})
    @@ ("elec_total" :> {"elec_total"})
    @@ ("nonelec_baseload" :> {"oil_watersystems", "gas_dryer", "gas_cooking", "gas_grill", "gas_hottubheater", "gas_lighting", "gas_poolheater", "lng_dryer", "lng_range", "lng_watersystems"})
    @@ ("nonelec_cooling" :> {})
    @@ ("nonelec_heating" :> {"oil_heating", "gas_fireplace", "gas_heating", "gas_watersystems", "lng_heating", "wood_heating"})
    @@ ("nonelec_dg" :> {})
    @@ ("nonelec_total" :> {"oil_total", "gas_total", "lng_total", "wood_total"})

\* Commercial.COLLECT: category -> COMstock columns
Commercial_COLLECT ==
       ("elec_baseload" :> {"elec_exteriorlights", "elec_fans", "elec_heatrejection", "elec_equipment", "elec_interiorlights", "elec_pumps", "elec_refrigeration", "elec_watersystems"})
    @@ ("elec_cooling" :> {"elec_cooling"})
    @@ ("elec_heating" :> {"elec_heating", "elec_heatrecovery"})
    @@ ("elec_dg" :> {})
    @@ ("elec_total" :> {"elec_total"})
    @@ ("nonelec_baseload" :> {"district_hotwater", "gas_heating", "gas_equipment", "gas_watersystems", "other_watersystems"})
    @@ ("nonelec_cooling" :> {"district_cooling"})
    @@ ("nonelec_heating" :> {"other_heating", "district_heating"})
    @@ ("nonelec_dg" :> {})
    @@ ("nonelec_total" :> {"other_total", "gas_total", "district_totalcooling", "district_totalheating"})

\* the keys of COLLECT in the order of the dict (the same in both classes)
COLLECT_KEYS == <<"elec_baseload", "elec_cooling", "elec_heating", "elec_dg", "elec_total", "nonelec_baseload", "nonelec_cooling", "nonelec_heating", "nonelec_dg", "nonelec_total">>

\* Floorarea.BUILDING_TYPES: floor area category -> COMstock codes
Floorarea_BUILDING_TYPES ==
       ("apartment" :> <<"CLL">>)
    @@ ("full_service_restaurant" :> <<"CLF">>)
    @@ ("hotel" :> <<"CSL">>)
    @@ ("no_match" :> <<>>)
    @@ ("office" :> <<"CSO", "CMO", "CLO">>)
    @@ ("outpatient" :> <<"CSH">>)
    @@ ("quick_service_restaurant" :> <<"CSF">>)
    @@ ("retail" :> <<"CMS">>)
    @@ ("school" :> <<"CME", "CSE">>)
    @@ ("strip_mall" :> <<"CSR">>)
    @@ ("supermarket" :> <<"CMR">>)
    @@ ("warehouse" :> <<"CMW">>)
    @@ ("hospital" :> <<"CLH">>)

\* Industry.COLUMNS: source column -> group
Industry_COLUMNS ==
       ("fips_matching" :> None)
    @@ ("Coal" :> "nonelec_total_MW")
    @@ ("Coke_and_breeze" :> "nonelec_total_MW")
    @@ ("Diesel" :> "nonelec_total_MW")
    @@ ("LPG_NGL" :> "nonelec_total_MW")
    @@ ("Natural_gas" :> "nonelec_total_MW")
    @@ ("Net_electricity" :> "elec_net_MW")
    @@ ("Other" :> "nonelec_total_MW")
    @@ ("Residual_fuel_oil" :> "nonelec_total_MW")

\* Agriculture.COLUMNS: source column -> group
Agriculture_COLUMNS ==
       ("fips_matching" :> None)
    @@ ("Diesel" :> "nonelec_total_MW")
    @@ ("LPG_NGL" :> "nonelec_total_MW")
    @@ ("Natural_gas" :> "nonelec_total_MW")
    @@ ("Net_electricity" :> "elec_net_MW")
    @@ ("Residual_fuel_oil" :> "nonelec_total_MW")

\* Floorarea.YEAR
Floorarea_YEAR == 2019

Range(f) == {f[x] : x \in DOMAIN f}

SeqRange(s) == {s[i] : i \in 1..Len(s)}

-----------------------------------------------------------------------------
(* The fips package: the states and counties it knows (a small extract) *)

Counties ==
    << [FIPS |-> 6001,  ST |-> "CA", COUNTY |-> "Alameda"],
       [FIPS |-> 6003,  ST |-> "CA", COUNTY |-> "Alpine"],
       [FIPS |-> 48001, ST |-> "TX", COUNTY |-> "Anderson"] >>

States == {Counties[i].ST : i \in 1..Len(Counties)}

CountiesOf(state) == {Counties[i].COUNTY : i \in {j \in 1..Len(Counties) : Counties[j].ST = state}}

\* County(ST=state,COUNTY=county) finds exactly one county, or raises
CountyKnown(state, county) == state \in States /\ county \in CountiesOf(state)

CountyFIPS(state, county) ==
    LET i == CHOOSE j \in 1..Len(Counties) :
                 Counties[j].ST = state /\ Counties[j].COUNTY = county
    IN  Counties[i].FIPS

-----------------------------------------------------------------------------
(* The data of the remote sources, as functions of the variable `remote` *)

\* building types a county may have no data for
MayBeMissing == {"RMH", "CLH"}

\* the building types the remote source may have no data for
Outages == {{}, MayBeMissing}

\* the worlds of the remote sources: the scale of their numbers, the building
\* types they have no data for, whether a file has an empty cell, and whether the
\* floor area inventory has every prototype; a world has at most one such fault
Remotes ==
    { rem \in [ level : 1..MaxLevel, missing : Outages, blank : BOOLEAN,
                coverage : {"full", "partial"} ] :
        Cardinality({x \in {"missing", "blank", "coverage"} :
                        \/ x = "missing" /\ rem.missing # {}
                        \/ x = "blank" /\ rem.blank
                        \/ x = "coverage" /\ rem.coverage = "partial"}) <= 1 }

IndexOf(seq, x) == CHOOSE i \in 1..Len(seq) : seq[i] = x

SectorColumns(sector) == IF sector = "RES" THEN RESstock_COLUMNS ELSE COMstock_COLUMNS

SectorTypes(sector) ==
    IF sector = "RES" THEN RESstock_BUILDING_TYPES ELSE COMstock_BUILDING_TYPES

SectorDriver(sector) ==
    IF sector = "RES" THEN "units_represented" ELSE "floor_area_represented"

\* the source's accounting: the end uses every total column adds up; the
\* electric total adds up every electric end use but the generation
RESstock_FUELS ==
       ("oil_total" :> {"oil_heating", "oil_watersystems"})
    @@ ("gas_total" :> {"gas_dryer", "gas_cooking", "gas_fireplace", "gas_grill",
                        "gas_heating", "gas_hottubheater", "gas_lighting",
                        "gas_poolheater", "gas_watersystems"})
    @@ ("lng_total" :> {"lng_dryer", "lng_range", "lng_heating", "lng_watersystems"})
    @@ ("wood_total" :> {"wood_heating"})

COMstock_FUELS ==
       ("gas_total" :> {"gas_heating", "gas_equipment", "gas_watersystems"})
    @@ ("other_total" :> {"other_heating", "other_watersystems"})
    @@ ("district_totalcooling" :> {"district_cooling"})
    @@ ("district_totalheating" :> {"district_heating", "district_hotwater"})

\* the totals of a source whose columns are `columns` and whose other fuels are
\* `fuels`: "elec_total" of the electric end uses, "total" of every end use
WithElectricity(columns, fuels) ==
    LET totals == DOMAIN fuels \cup {"elec_total", "total"}
        others == UNION {fuels[x] : x \in DOMAIN fuels}
    IN  fuels @@ ("elec_total" :> (Range(columns) \ (totals \cup others \cup {"elec_pv"})))
              @@ ("total" :> (Range(columns) \ totals))

RESstock_TOTALS == WithElectricity(RESstock_COLUMNS, RESstock_FUELS)

COMstock_TOTALS == WithElectricity(COMstock_COLUMNS, COMstock_FUELS)

SourceTotals(sector) == IF sector = "RES" THEN RESstock_TOTALS ELSE COMstock_TOTALS

\* the source column of every canonical column (COLUMNS read backwards)
SourceColumn ==
    [sector \in {"RES", "COM"} |->
        [c \in Range(SectorColumns(sector)) |->
            CHOOSE x \in DOMAIN SectorColumns(sector) : SectorColumns(sector)[x] = c]]

\* the end use whose first cell is empty in a source with a blank cell
BlankColumn(sector) == IF sector = "RES" THEN "elec_plugs" ELSE "elec_fans"

\* the stock the model represents (units_represented, floor_area_represented)
ModelDriver(sector, bt) == IndexOf(SectorTypes(sector), bt)

\* the shape of an end use over the native intervals k = 1, 2, ...
Profile(c, k) ==
    IF c = "elec_pv" THEN -1
    ELSE IF c \in {"elec_cooling", "district_cooling"} THEN k % 2
    ELSE IF c \in {"elec_heating", "gas_heating"} THEN 2 - (k % 2)
    ELSE 1

RECURSIVE SumInts(_, _, _)
SumInts(S, f(_), acc) ==
    IF S = {} THEN acc
    ELSE LET x == CHOOSE y \in S : TRUE IN SumInts(S \ {x}, f, acc + f(x))

\* the shape of every column: an end use has its own, a total adds up its end uses
Profiles ==
    [sector \in {"RES", "COM"} |->
        [c \in Range(SectorColumns(sector)) |-> [parity \in 0..1 |->
            IF c \in DOMAIN SourceTotals(sector)
            THEN LET e(x) == Profile(x, parity)
                 IN  SumInts(SourceTotals(sector)[c], e, 0)
            ELSE Profile(c, parity)]]]

\* the energy of one column in one native interval, for the whole model stock
Energy(rem, sector, bt, c, k) ==
    ModelDriver(sector, bt) * rem.level * Profiles[sector][c][k % 2]

\* a cell of the csv file: <<n>> is the text of the number n, << >> is empty text
SourceCell(rem, sector, bt, c, k) ==
    IF rem.blank /\ c = BlankColumn(sector) /\ k = 1 THEN << >>
    ELSE <<Energy(rem, sector, bt, c, k)>>

\* the csv file of a building type: native intervals labelled by their end, in EST
SourceTable(rem, sector, bt) ==
    LET COLUMNS == SectorColumns(sector)
    IN  [ tz    |-> "naive",
          index |-> [k \in 1..TicksPerYear |-> k],
          cols  |-> [s \in DOMAIN COLUMNS \cup {SectorDriver(sector), "models_used"} |->
                        [k \in 1..TicksPerYear |->
                            IF s = SectorDriver(sector) THEN <<ModelDriver(sector, bt)>>
                            ELSE IF s = "models_used" THEN <<1>>
                            ELSE SourceCell(rem, sector, bt, COLUMNS[s], k)]] ]

\* a csv file is kept by its name in the catalogue StockCsv below: the file of a
\* source by its building type and what the world makes of it
SourceName(rem, bt) == <<bt, rem.level, rem.blank>>

HTTPError == <<"HTTPError">>

\* pd.read_csv(url): the file, or an HTTP error where the source has no data
ReadUrl(rem, sector, state, county, bt) ==
    IF state \notin States \/ bt \in rem.missing THEN HTTPError
    ELSE SourceName(rem, bt)

-----------------------------------------------------------------------------
(* Data frames: [index |-> <<tick, ...>>, cols |-> [column -> <<value, ...>>]] *)

\* the sampling frequencies the calls ask for ("1h", or None for the native one)
Freqs == {"1h", None}

FreqTicks(freq) == IF freq = "1h" THEN TicksPerHour ELSE TicksPerDay

\* pd.date_range(start,end,freq); without a frequency pandas takes "D"
DateRange(start, end, freq) ==
    LET step == FreqTicks(freq)
    IN  [i \in 1..((end - start) \div step + 1) |-> start + (i - 1) * step]

\* a variant of FoldYear that leaves every timestamp in its year
KeepYear(t) == t

\* str(x).replace("2019","2018"): a timestamp of 2019 becomes the same one of 2018
FoldYear(t) == IF t >= TicksPerYear /\ t < 2 * TicksPerYear THEN t - TicksPerYear ELSE t

FoldIndex(df) == [df EXCEPT !.index = [i \in 1..Len(df.index) |-> FoldYear(df.index[i])]]

\* sort_index(): the rows in ascending order of the index (rows of one timestamp
\* keep their order)
SortIndex(df) ==
    LET n == Len(df.index)
        before(j, i) == df.index[j] < df.index[i] \/ (df.index[j] = df.index[i] /\ j < i)
        place(i) == Cardinality({j \in 1..n : before(j, i)}) + 1
        row == [k \in 1..n |-> CHOOSE i \in 1..n : place(i) = k]
    IN  [ index |-> [k \in 1..n |-> df.index[row[k]]],
          cols  |-> [c \in DOMAIN df.cols |-> [k \in 1..n |-> df.cols[c][row[k]]]] ]

RECURSIVE SeqMax(_, _, _)
\* Series.max(): the greatest value that is not NaN (NaN when there is none)
SeqMax(s, i, acc) ==
    IF i > Len(s) THEN acc
    ELSE SeqMax(s, i + 1,
                IF IsNaN(s[i]) THEN acc
                ELSE IF IsNaN(acc) \/ RLess(acc, s[i]) THEN s[i] ELSE acc)

RECURSIVE SeqMin(_, _, _)
SeqMin(s, i, acc) ==
    IF i > Len(s) THEN acc
    ELSE SeqMin(s, i + 1,
                IF IsNaN(s[i]) THEN acc
                ELSE IF IsNaN(acc) \/ RLess(s[i], acc) THEN s[i] ELSE acc)

\* (data/ts).resample(freq).ffill(): every value divided by the mean interval in
\* hours, then one row per interval of freq from the first row's to the last
\* row's: the rows relabelled when they already have that frequency, else the
\* last row at or before each label (NaN when there is none)
Resample(df, freq) ==
    LET n == Len(df.index)
        step == FreqTicks(freq)
        ts == RDiv(R(df.index[n] - df.index[1]), R((n - 1) * TicksPerHour))
        first == df.index[1] \div step
        m == (df.index[n] \div step) - first + 1
        grid == [i \in 1..m |-> (first + i - 1) * step]
        same == n >= 3 /\ m = n /\ \A i \in 1..(n - 1) : df.index[i + 1] - df.index[i] = step
        at(g) == LET S == {i \in 1..n : df.index[i] <= g}
                 IN  IF S = {} THEN 0 ELSE CHOOSE i \in S : \A j \in S : j <= i
        from == [i \in 1..m |-> IF same THEN i ELSE at(grid[i])]
    IN  [ index |-> grid,
          cols  |-> [c \in DOMAIN df.cols |->
                        [i \in 1..m |-> IF from[i] = 0 THEN NaN
                                        ELSE RDiv(df.cols[c][from[i]], ts)]] ]

-----------------------------------------------------------------------------
(* RESstock and COMstock *)

\* _float(s,default): the number a text stands for, or the default
Float(s, default) == IF Len(s) = 1 THEN R(s[1]) ELSE default

\* the result of a call: the cache it leaves, the urls it fetched, the warnings
\* it emitted, "ok" or the exception it raised, and the value it returned
Ret(cdir, c, fetched, warned, outcome, result) ==
    [ cachedir |-> cdir, cache |-> c, fetched |-> fetched, warned |-> warned,
      outcome |-> outcome, result |-> result ]

StockFile(state, county, building_type) ==
    IF county = None THEN <<state, building_type, ".csv.gz">>
    ELSE <<state, county, building_type, ".csv.gz">>

StockUrl(sector, state, county, building_type) ==
    LET btype == IF sector = "RES" THEN RESstock_BUILDING_NAMES[building_type]
                 ELSE COMstock_BUILDING_NAMES[building_type]
    IN  IF county = None THEN <<sector, "by_state", state, btype>>
        ELSE <<sector, "by_county", state, CountyFIPS(state, county), btype>>

\* the all zeros data frame written when the source has no data
ZerosTable(sector, freq) ==
    LET ndx == DateRange(EstOffsetHours * TicksPerHour,
                         (HoursPerYear + EstOffsetHours - 1) * TicksPerHour, freq)
    IN  [ tz    |-> "utc",
          index |-> ndx,
          cols  |-> [s \in DOMAIN SectorColumns(sector) \cup {SectorDriver(sector)} |->
                        [i \in 1..Len(ndx) |-> <<0>>]] ]

\* the index of the cache file in UTC: texts without an offset are EST, and the
\* label of an interval is moved from its end to its start
ToUTC(tz, t) == (IF tz = "naive" THEN t + EstOffsetHours * TicksPerHour ELSE t) - 1

\* the watts per unit of stock of one cell; COMstock alone guards a zero stock
PerUnitRES(x, units) == RMul(RDiv(Float(x, Zero), units), R(1000))

PerUnitCOM(x, floor_area) ==
    IF floor_area = Zero THEN Zero ELSE RMul(RDiv(Float(x, Zero), floor_area), R(1000))

DriverName(sector) == IF sector = "RES" THEN "units" ELSE "floor_area"

\* "resample if necessary"
Sampled(data, freq) == IF freq = None THEN data ELSE Resample(data, freq)

\* "restructure data": the canonical columns in watts per unit of stock, and the
\* stock itself
Restructured(sector, file, driver) ==
    LET COLUMNS == SectorColumns(sector)
        n == Len(file.index)
    IN  [ index |-> [i \in 1..n |-> ToUTC(file.tz, file.index[i])],
          cols  |-> [c \in Range(COLUMNS) \cup {DriverName(sector)} |->
                        [i \in 1..n |->
                            IF c = DriverName(sector) THEN driver
                            ELSE IF sector = "RES"
                                 THEN PerUnitRES(file.cols[SourceColumn[sector][c]][i], driver)
                                 ELSE PerUnitCOM(file.cols[SourceColumn[sector][c]][i], driver)]] ]

\* "capture number of housing units": the column of the file as numbers
Represented(sector, file) ==
    [i \in 1..Len(file.index) |-> R(file.cols[SectorDriver(sector)][i][1])]

\* the warning when the stock is not the same in every row
Changes(represented, driver) ==
    IF SeqMin(represented, 1, NaN) # driver THEN <<"changes">> ELSE << >>

\* "load data from cache" to the end of the constructor
LoadStock(sector, file, freq, represented, driver) ==
    [ warned |-> Changes(represented, driver),
      result |-> SortIndex(FoldIndex(Sampled(Restructured(sector, file, driver), freq))) ]

\* the all zeros file by the frequency it was made for
ZerosName(freq) == <<"zeros", freq>>

\* the file the constructor reads: the one of the cache, or the one it writes
\* from what the source answered
Cached(file) == [written |-> file, fetched |-> << >>, warned |-> << >>]

\* a variant of Downloaded that does not warn
DownloadedQuietly(sector, freq, url, read) ==
    [written |-> IF read = HTTPError THEN ZerosName(freq) ELSE read,
     fetched |-> <<url>>, warned |-> << >>]

Downloaded(sector, freq, url, read) ==
    IF read = HTTPError
    THEN [written |-> ZerosName(freq), fetched |-> <<url>>, warned |-> <<"nodata">>]
    ELSE [written |-> read, fetched |-> <<url>>, warned |-> << >>]

\* every csv file a loader can find in its cache, by name
StockCsv ==
    [sector \in {"RES", "COM"} |->
        [name \in {SourceName(rem, bt) : rem \in Remotes, bt \in SeqRange(SectorTypes(sector))}
                    \cup {ZerosName(freq) : freq \in Freqs} |->
            IF Len(name) = 2 THEN ZerosTable(sector, name[2])
            ELSE SourceTable(CHOOSE rem \in Remotes : SourceName(rem, name[1]) = name,
                             sector, name[1])]]

ReadStock(sector, file, freq, represented) ==
    LoadStock(sector, file, freq, represented, SeqMax(represented, 1, NaN))

\* LoadStock of every file at every frequency, tabulated
StockLoads ==
    [sector \in {"RES", "COM"} |->
        [name \in DOMAIN StockCsv[sector], freq \in Freqs |->
            ReadStock(sector, StockCsv[sector][name], freq,
                      Represented(sector, StockCsv[sector][name]))]]

Loaded(c, got, loaded) ==
    Ret(TRUE, c, got.fetched, got.warned \o loaded.warned, "ok", loaded.result)

\* a variant of Open that leaves the cache as it found it
OpenUnsaved(sector, c, file, freq, hit, got) ==
    Loaded(c, got, StockLoads[sector][got.written, freq])

Open(sector, c, file, freq, hit, got) ==
    Loaded(IF hit THEN c ELSE (file :> got.written) @@ c, got,
           StockLoads[sector][got.written, freq])

\* a variant of Stock that makes the cache folder before it looks at the
\* building type
StockFolderFirst(sector, rem, cdir, c, state, county, building_type, freq) ==
    IF building_type \notin SeqRange(SectorTypes(sector))
    THEN Ret(TRUE, c, << >>, << >>, "AssertionError", None)
    ELSE IF StockFile(state, county, building_type) \in DOMAIN c
    THEN Open(sector, c, StockFile(state, county, building_type), freq, TRUE,
              Cached(c[StockFile(state, county, building_type)]))
    ELSE IF county # None /\ ~CountyKnown(state, county)
    THEN Ret(TRUE, c, << >>, << >>, "CountyError", None)
    ELSE Open(sector, c, StockFile(state, county, building_type), freq, FALSE,
              Downloaded(sector, freq, StockUrl(sector, state, county, building_type),
                         ReadUrl(rem, sector, state, county, building_type)))

\* a variant of Stock that downloads again when the file of the cache is the all
\* zeros file
StockRetrying(sector, rem, cdir, c, state, county, building_type, freq) ==
    IF building_type \notin SeqRange(SectorTypes(sector))
    THEN Ret(cdir, c, << >>, << >>, "AssertionError", None)
    ELSE IF /\ StockFile(state, county, building_type) \in DOMAIN c
            /\ Len(c[StockFile(state, county, building_type)]) # 2
    THEN Open(sector, c, StockFile(state, county, building_type), freq, TRUE,
              Cached(c[StockFile(state, county, building_type)]))
    ELSE IF county # None /\ ~CountyKnown(state, county)
    THEN Ret(TRUE, c, << >>, << >>, "CountyError", None)
    ELSE Open(sector, c, StockFile(state, county, building_type), freq, FALSE,
              Downloaded(sector, freq, StockUrl(sector, state, county, building_type),
                         ReadUrl(rem, sector, state, county, building_type)))

\* the constructor of RESstock (sector "RES") and of COMstock (sector "COM")
Stock(sector, rem, cdir, c, state, county, building_type, freq) ==
    IF building_type \notin SeqRange(SectorTypes(sector))
    THEN Ret(cdir, c, << >>, << >>, "AssertionError", None)
    ELSE IF StockFile(state, county, building_type) \in DOMAIN c
    THEN Open(sector, c, StockFile(state, county, building_type), freq, TRUE,
              Cached(c[StockFile(state, county, building_type)]))
    ELSE IF county # None /\ ~CountyKnown(state, county)
    THEN Ret(TRUE, c, << >>, << >>, "CountyError", None)
    ELSE Open(sector, c, StockFile(state, county, building_type), freq, FALSE,
              Downloaded(sector, freq, StockUrl(sector, state, county, building_type),
                         ReadUrl(rem, sector, state, county, building_type)))

RESstock(rem, cdir, c, state, county, building_type, freq) ==
    Stock("RES", rem, cdir, c, state, county, building_type, freq)

COMstock(rem, cdir, c, state, county, building_type, freq) ==
    Stock("COM", rem, cdir, c, state, county, building_type, freq)

-----------------------------------------------------------------------------
(* Units: the housing units of a county *)

\* the attempts the fetch makes before it gives up
Units_retry == 5

\* texts are sequences of characters where the code looks inside them
Chars ==
       ("Alameda"  :> <<"A", "l", "a", "m", "e", "d", "a">>)
    @@ ("Alpine"   :> <<"A", "l", "p", "i", "n", "e">>)
    @@ ("Anderson" :> <<"A", "n", "d", "e", "r", "s", "o", "n">>)
    @@ ("Al"       :> <<"A", "l">>)

StateNames == ("CA" :> "California") @@ ("TX" :> "Texas")

\* the years of the sheet's columns
UnitYears == <<2023, 2024>>

\* the sheet of a state: a row for the state, then a row for each county
\* labelled ".<county> County, <state>"; the year cells are numbers
UnitsSheet(rem, state) ==
    LET mine == SelectSeq(Counties, LAMBDA r : r.ST = state)
        n == Len(mine)
        held(i, y) == rem.level * (10 * i + (y - 2020))
        total(y) == rem.level * (5 * n * (n + 1) + n * (y - 2020))
    IN  [ labels  |-> <<<<StateNames[state]>>>> \o
                      [i \in 1..n |-> <<".">> \o Chars[mine[i].COUNTY]
                                       \o <<" County, ", StateNames[state]>>],
          columns |-> [j \in 1..Len(UnitYears) |-> <<"int", UnitYears[j]>>],
          values  |-> <<[j \in 1..Len(UnitYears) |-> total(UnitYears[j])]>> \o
                      [i \in 1..n |-> [j \in 1..Len(UnitYears) |-> held(i, UnitYears[j])]] ]

\* to_csv and read_csv: the column labels come back as texts
UnitsCsv(sheet) ==
    [sheet EXCEPT !.columns = [j \in 1..Len(sheet.columns) |-> <<"str", sheet.columns[j][2]>>]]

StartsWith(text, prefix) ==
    Len(prefix) <= Len(text) /\ SubSeq(text, 1, Len(prefix)) = prefix

\* from "if year is None" to the end of Units.__new__
UnitsLookup(data, county, year) ==
    LET y == IF year = NoYear THEN data.columns[Len(data.columns)] ELSE year
        col == {j \in 1..Len(data.columns) : data.columns[j] = y}
        row == IF county = None THEN {i \in 1..Len(data.labels) : TRUE}
               ELSE {i \in 1..Len(data.labels) :
                        StartsWith(data.labels[i], <<".">> \o Chars[county])}
    IN  IF col = {} THEN [outcome |-> "AssertionError", warned |-> << >>, result |-> None]
        ELSE IF Cardinality(row) # 1
             THEN [outcome |-> "ok", warned |-> <<"notsingle">>, result |-> NaN]
             ELSE [outcome |-> "ok", warned |-> << >>,
                   result |-> R(data.values[CHOOSE i \in row : TRUE][CHOOSE j \in col : TRUE])]

UnitsFile(state) == <<state, "_housing_units.csv">>

\* the end of Units.__new__ of the package resstock: no warning is emitted
LegacyLookup(data, county, year) == [UnitsLookup(data, county, year) EXCEPT !.warned = << >>]

RECURSIVE TryingOnceMore(_, _, _, _)
\* a variant of Trying whose loop runs while retry >= 0
TryingOnceMore(retry, timeouts, url, fetched) ==
    IF retry < 0 THEN [retry |-> 0, fetched |-> fetched]
    ELSE IF timeouts > 0 THEN TryingOnceMore(retry - 1, timeouts - 1, url, Append(fetched, url))
    ELSE [retry |-> retry + 1, fetched |-> Append(fetched, url)]

RECURSIVE Trying(_, _, _, _)
\* "while retry > 0": an attempt that times out takes one from retry, one that
\* succeeds breaks the loop; `timeouts` attempts time out before one succeeds
Trying(retry, timeouts, url, fetched) ==
    IF retry <= 0 THEN [retry |-> retry, fetched |-> fetched]
    ELSE IF timeouts > 0 THEN Trying(retry - 1, timeouts - 1, url, Append(fetched, url))
    ELSE [retry |-> retry, fetched |-> Append(fetched, url)]

\* Units.__new__
Units(rem, cdir, c, state, county, year, timeouts) ==
    LET cache_ == UnitsFile(state)
        url == <<"housing", state>>
    IN  IF cache_ \in DOMAIN c
        THEN LET got == UnitsLookup(c[cache_], county, year)
             IN  Ret(TRUE, c, << >>, got.warned, got.outcome, got.result)
        ELSE IF state \notin States
        THEN Ret(TRUE, c, << >>, << >>, "StateError", None)
        ELSE LET tried == Trying(Units_retry, timeouts, url, << >>)
                 data == UnitsSheet(rem, state)
                 got == UnitsLookup(data, county, year)
             IN  IF tried.retry = 0
                 THEN Ret(TRUE, c, tried.fetched, << >>, "timeout", None)
                 ELSE Ret(TRUE, (cache_ :> UnitsCsv(data)) @@ c, tried.fetched,
                          got.warned, got.outcome, got.result)

\* Units.__new__ of the package resstock, which keeps its own cache folder
LegacyUnits(rem, own, state, county, year, timeouts) ==
    LET cache_ == UnitsFile(state)
        url == <<"housing", state>>
    IN  IF cache_ \in DOMAIN own.files
        THEN LET got == LegacyLookup(own.files[cache_], county, year)
             IN  [ legacy |-> [own EXCEPT !.dir = TRUE], fetched |-> << >>,
                   warned |-> got.warned, outcome |-> got.outcome, result |-> got.result ]
        ELSE IF state \notin States
        THEN [ legacy |-> [own EXCEPT !.dir = TRUE], fetched |-> << >>, warned |-> << >>,
               outcome |-> "StateError", result |-> None ]
        ELSE LET tried == Trying(Units_retry, timeouts, url, << >>)
                 data == UnitsSheet(rem, state)
                 got == LegacyLookup(data, county, year)
             IN  IF tried.retry = 0
                 THEN [ legacy |-> [own EXCEPT !.dir = TRUE], fetched |-> tried.fetched,
                        warned |-> << >>, outcome |-> "timeout", result |-> None ]
                 ELSE [ legacy |-> [dir |-> TRUE,
                                    files |-> (cache_ :> UnitsCsv(data)) @@ own.files],
                        fetched |-> tried.fetched, warned |-> got.warned,
                        outcome |-> got.outcome, result |-> got.result ]

-----------------------------------------------------------------------------
(* Residential and Commercial: the consolidation of the building types *)

\* f"{aggr}_MW" for the keys of COLLECT, and "elec_net_MW"
MW ==
       ("elec_baseload" :> "elec_baseload_MW")
    @@ ("elec_cooling" :> "elec_cooling_MW")
    @@ ("elec_heating" :> "elec_heating_MW")
    @@ ("elec_dg" :> "elec_dg_MW")
    @@ ("elec_total" :> "elec_total_MW")
    @@ ("nonelec_baseload" :> "nonelec_baseload_MW")
    @@ ("nonelec_cooling" :> "nonelec_cooling_MW")
    @@ ("nonelec_heating" :> "nonelec_heating_MW")
    @@ ("nonelec_dg" :> "nonelec_dg_MW")
    @@ ("nonelec_total" :> "nonelec_total_MW")

\* x.split("_",1)[0] for the keys of COLLECT
Carrier ==
       ("elec_baseload" :> "elec")
    @@ ("elec_cooling" :> "elec")
    @@ ("elec_heating" :> "elec")
    @@ ("elec_dg" :> "elec")
    @@ ("elec_total" :> "elec")
    @@ ("nonelec_baseload" :> "nonelec")
    @@ ("nonelec_cooling" :> "nonelec")
    @@ ("nonelec_heating" :> "nonelec")
    @@ ("nonelec_dg" :> "nonelec")
    @@ ("nonelec_total" :> "nonelec")

\* the column names of the tables in the order Python sorts texts
ColumnOrder ==
    << "elec_baseload_MW", "elec_cooling_MW", "elec_dg_MW", "elec_heating_MW",
       "elec_net_MW", "elec_total_MW", "nonelec_baseload_MW", "nonelec_cooling_MW",
       "nonelec_dg_MW", "nonelec_heating_MW", "nonelec_total_MW" >>

\* sorted(data.columns)
Sorted(names) == SelectSeq(ColumnOrder, LAMBDA x : x \in names)

RECURSIVE SumSkipNaN(_, _, _)
\* DataFrame.sum(axis=1) of one row: NaN cells are skipped
SumSkipNaN(S, f(_), acc) ==
    IF S = {} THEN acc
    ELSE LET x == CHOOSE y \in S : TRUE
         IN  SumSkipNaN(S \ {x}, f, IF IsNaN(f(x)) THEN acc ELSE RAdd(acc, f(x)))

\* a variant of CategoryMW that leaves one of the columns out of the sum
CategoryShort(bdata, columns) ==
    [i \in 1..Len(bdata.index) |->
        LET cell(x) == bdata.cols[x][i]
            rest == IF columns = {} THEN {} ELSE columns \ {CHOOSE x \in columns : TRUE}
        IN  RDiv(SumSkipNaN(rest, cell, Zero), R(1000000))]

\* bdata[columns].sum(axis=1) / 1e6
CategoryMW(bdata, columns) ==
    [i \in 1..Len(bdata.index) |->
        LET cell(x) == bdata.cols[x][i]
        IN  RDiv(SumSkipNaN(columns, cell, Zero), R(1000000))]

RECURSIVE SumSeq(_, _, _)
SumSeq(s, i, acc) == IF i > Len(s) THEN acc ELSE SumSeq(s, i + 1, RAdd(acc, s[i]))

\* the times `total_units += units[btype]` runs for one building type
TimesCounted(collect) == Cardinality(DOMAIN collect)

\* total_units (total_area) at the end of the first loop
TotalDriver(types, driver, collect) ==
    SumSeq([i \in 1..Len(types) |-> RMul(R(TimesCounted(collect)), driver[types[i]])], 1, Zero)

\* a variant of NetMW that takes the generation off the total
NetMinusDG(elec_total, elec_dg) == RSub(elec_total, elec_dg)

\* the net load of a row
NetMW(elec_total, elec_dg) == RAdd(elec_total, elec_dg)

\* pd.DataFrame(data): the series on one index, the sorted union of theirs when
\* they differ (NaN where a series has no row); index[bt] is the index of the
\* series of building type bt
FrameIndex(types, index) ==
    LET all == {index[types[i]] : i \in 1..Len(types)}
    IN  IF Cardinality(all) = 1 THEN index[types[1]]
        ELSE LET T == UNION {SeqRange(x) : x \in all}
                 n == Cardinality(T)
             IN  [k \in 1..n |-> CHOOSE t \in T : Cardinality({u \in T : u < t}) = k - 1]

Aligned(index, series_index, series) ==
    [k \in 1..Len(index) |->
        IF series_index = index THEN series[k]
        ELSE LET S == {i \in 1..Len(series_index) : series_index[i] = index[k]}
             IN  IF S = {} THEN NaN ELSE series[CHOOSE i \in S : TRUE]]

\* a variant of TableColumns that keeps the non-electric generation
EveryColumn(collect) == {MW[a] : a \in DOMAIN collect} \cup {"elec_net_MW"}

\* the columns of the table: one per key of COLLECT and the net load, without the
\* non-electric generation
TableColumns(collect) ==
    ({MW[a] : a \in DOMAIN collect} \cup {"elec_net_MW"}) \ {"nonelec_dg_MW"}

\* the second loop of the constructors up to the sorted table: every series of
\* building type bt times driver[bt] / total * actual[bt], added up per category
Consolidate(types, collect, index, data, driver, actual) ==
    LET total == TotalDriver(types, driver, collect)
        frame == FrameIndex(types, index)
        n == Len(frame)
        weight == [bt \in SeqRange(types) |-> RMul(RDiv(driver[bt], total), actual[bt])]
        series == [bt \in SeqRange(types) |-> [a \in DOMAIN collect |->
                      LET own == Aligned(frame, index[bt], data[bt][a])
                      IN  [k \in 1..n |-> RMul(own[k], weight[bt])]]]
        sum == [a \in DOMAIN collect |-> [k \in 1..n |->
                      SumSeq([i \in 1..Len(types) |-> series[types[i]][a][k]], 1, Zero)]]
        names == TableColumns(collect)
        sorted == SortIndex(FoldIndex(
                    [ index |-> frame,
                      cols  |-> [x \in names |->
                          IF x = "elec_net_MW"
                          THEN [k \in 1..n |-> NetMW(sum["elec_total"][k], sum["elec_dg"][k])]
                          ELSE sum[CHOOSE a \in DOMAIN collect : MW[a] = x]] ]))
    IN  [ result |-> [ index |-> sorted.index, columns |-> Sorted(names),
                       cols |-> sorted.cols ],
          locals |-> [ index |-> index, total |-> total, driver |-> driver,
                       actual |-> actual, data |-> data ] ]

\* a variant of SectorCollect in which the residential baseload also lists the
\* cooling
SectorCollectOverlapping(sector) ==
    IF sector = "RES"
    THEN [Residential_COLLECT EXCEPT !["elec_baseload"] = @ \cup {"elec_cooling"}]
    ELSE Commercial_COLLECT

SectorCollect(sector) == IF sector = "RES" THEN Residential_COLLECT ELSE Commercial_COLLECT

\* bdata["units"].max(), bdata["floor_area"].max()
ModelStock(sector, bdata) == SeqMax(bdata.cols[DriverName(sector)], 1, NaN)

\* every table a loader can return
StockTables(sector) == {StockLoads[sector][k].result : k \in DOMAIN StockLoads[sector]}

\* bdata[columns].sum(axis=1) / 1e6 for every key of COLLECT, tabulated for every
\* table a loader can return
CollectedMW ==
    [sector \in {"RES", "COM"} |->
        [bdata \in StockTables(sector) |->
            [aggr \in DOMAIN SectorCollect(sector) |->
                CategoryMW(bdata, SectorCollect(sector)[aggr])]]]

\* the state of the first loop after the loader returned `got` for a building type
Collected(acc, sector, bt, got) ==
    [ cache   |-> got.cache,
      fetched |-> acc.fetched \o got.fetched,
      warned  |-> acc.warned \o got.warned,
      loaders |-> Append(acc.loaders, <<sector, bt>>),
      index   |-> (bt :> got.result.index) @@ acc.index,
      data    |-> (bt :> CollectedMW[sector][got.result]) @@ acc.data,
      units   |-> (bt :> ModelStock(sector, got.result)) @@ acc.units ]

RECURSIVE LoadTypes(_, _, _, _, _, _, _, _)
\* "collect building type data": one loader call per building type, in order;
\* acc holds the cache, the fetches, the warnings and the tables so far
LoadTypes(sector, rem, state, county, freq, types, i, acc) ==
    IF i > Len(types) THEN acc
    ELSE LoadTypes(sector, rem, state, county, freq, types, i + 1,
                   Collected(acc, sector, types[i],
                             Stock(sector, rem, TRUE, acc.cache, state, county, types[i], freq)))

\* the state of the first loop before its first pass
Before(c, fetched, loaders) ==
    [ cache |-> c, fetched |-> fetched, warned |-> << >>, loaders |-> loaders,
      index |-> << >>, data |-> << >>, units |-> << >> ]

\* a constructor that raised `outcome` after the calls of `loaders`
Raised(cdir, c, fetched, warned, outcome, loaders) ==
    Ret(cdir, c, fetched, warned, outcome, None) @@ [loaders |-> loaders]

\* a constructor that returned the table of `data`
Returned(c, fetched, warned, loaders, data) ==
    Ret(TRUE, c, fetched, warned, "ok", data.result)
        @@ [loaders |-> loaders, locals |-> data.locals]

\* Residential from "scale by number of residential units" on
Scaled(loads, actual_units) ==
    IF actual_units.outcome # "ok"
    THEN Raised(TRUE, actual_units.cache, loads.fetched \o actual_units.fetched,
                loads.warned \o actual_units.warned, actual_units.outcome,
                Append(loads.loaders, <<"Units">>))
    ELSE Returned(actual_units.cache, loads.fetched \o actual_units.fetched,
                  loads.warned \o actual_units.warned, Append(loads.loaders, <<"Units">>),
                  Consolidate(RESstock_BUILDING_TYPES, Residential_COLLECT, loads.index,
                              loads.data, loads.units,
                              [bt \in SeqRange(RESstock_BUILDING_TYPES) |->
                                  actual_units.result]))

\* Residential after the loop over the building types
Counted(rem, state, county, year, timeouts, loads) ==
    Scaled(loads, Units(rem, TRUE, loads.cache, state, county, year, timeouts))

\* the constructor of Residential with the default mapping
Residential(rem, cdir, c, state, county, freq, year, timeouts) ==
    IF ~(state \in States /\ county \in CountiesOf(state))
    THEN Raised(cdir, c, << >>, << >>, "AssertionError", << >>)
    ELSE Counted(rem, state, county, year, timeouts,
                 LoadTypes("RES", rem, state, county, freq, RESstock_BUILDING_TYPES, 1,
                           Before(c, << >>, << >>)))

-----------------------------------------------------------------------------
(* Floorarea: the commercial floor area of the counties *)

\* the regions of the inventory, in the order of the constructor's loop
Regions == <<"South Central", "Northeast", "South Atlantic", "Midwest", "West">>

RegionOf == ("TX" :> "South Central") @@ ("CA" :> "West")

\* the years the inventory is published for
FloorYears == {Floorarea_YEAR, Floorarea_YEAR + 1}

\* doe_prototype in the order groupby leaves the rows (sorted texts)
Prototypes ==
    << "apartment", "full_service_restaurant", "hospital", "hotel", "no_match",
       "office", "outpatient", "quick_service_restaurant", "retail", "school",
       "strip_mall", "supermarket", "warehouse" >>

\* the prototypes a county has floor area of
PrototypesOf(rem, fips) ==
    IF rem.coverage = "full" THEN Prototypes
    ELSE SelectSeq(Prototypes, LAMBDA x : x # "hospital")

\* area_sum of one county and prototype in the inventory of a year
AreaSum(rem, fips, prototype, year) ==
    rem.level * (600 * IndexOf(Prototypes, prototype) + 60 * (fips % 10)
                    + 6000 * (year - Floorarea_YEAR))

RECURSIVE Concat(_, _, _)
\* the sequences f[1], ..., f[n] one after the other
Concat(f, i, acc) == IF i > Len(f) THEN acc ELSE Concat(f, i + 1, acc \o f[i])

\* the "County" sheet of a region after groupby(...).sum().reset_index(): one row
\* per state, county and prototype, in that order
RegionSheet(rem, region, year) ==
    LET mine == SelectSeq(Counties, LAMBDA r : RegionOf[r.ST] = region)
        rows(r) == LET P == PrototypesOf(rem, r.FIPS)
                   IN  [i \in 1..Len(P) |->
                           [ ST |-> r.ST, FIPS |-> r.FIPS, BUILDING_TYPE |-> P[i],
                             FLOORAREA |-> R(AreaSum(rem, r.FIPS, P[i], year)) ]]
    IN  Concat([i \in 1..Len(mine) |-> rows(mine[i])], 1, << >>)

\* a data frame of rows with the default row labels 0, 1, ...
Frame(rows) == [labels |-> [i \in 1..Len(rows) |-> i - 1], rows |-> rows]

\* to_csv(index=False) and read_csv: the rows come back with new row labels
RowsCsv(df) == df.rows

\* pd.concat(data): the rows of the frames with the row labels they have
ConcatFrames(frames) ==
    [ labels |-> Concat([i \in 1..Len(frames) |-> frames[i].labels], 1, << >>),
      rows   |-> Concat([i \in 1..Len(frames) |-> frames[i].rows], 1, << >>) ]

RegionFile(n) == <<"region", ToString(n), "_floorarea.csv.gz">>

FloorareaFile == <<"floorarea.csv.gz">>

FloorareaUrl(region, year) == <<"inventory", year, region>>

RECURSIVE LoadRegions(_, _, _, _, _)
\* the loop over the regions; n counts from 0 as enumerate does, and down are the
\* regions whose download fails; read_excel raises at the first of them that has
\* no file
LoadRegions(rem, year, down, n, acc) ==
    IF n >= Len(Regions) THEN acc
    ELSE LET file == RegionFile(n)
             hit == file \in DOMAIN acc.cache
             result == IF hit THEN Frame(acc.cache[file])
                       ELSE Frame(RegionSheet(rem, Regions[n + 1], year))
         IN  IF ~hit /\ n \in down
             THEN [acc EXCEPT !.fetched = Append(@, FloorareaUrl(Regions[n + 1], year)),
                              !.failed = TRUE]
             ELSE LoadRegions(rem, year, down, n + 1,
                     [ cache   |-> IF hit THEN acc.cache
                                   ELSE (file :> RowsCsv(result)) @@ acc.cache,
                       fetched |-> IF hit THEN acc.fetched
                                   ELSE Append(acc.fetched, FloorareaUrl(Regions[n + 1], year)),
                       data    |-> Append(acc.data, result),
                       failed  |-> FALSE ])

\* "|".join(self.BUILDING_TYPES[x]): the text is kept as the sequence of its codes
JoinCodes(prototype) == Floorarea_BUILDING_TYPES[prototype]

\* a variant of Interrupted that writes the nationwide file from the regions read
\* so far
InterruptedWritten(loads) ==
    Ret(TRUE, (FloorareaFile :> RowsCsv(ConcatFrames(loads.data))) @@ loads.cache,
        loads.fetched, << >>, "URLError", None)

\* read_excel raised in the loop: the constructor is left with the regional files
\* written so far
Interrupted(loads) == Ret(TRUE, loads.cache, loads.fetched, << >>, "URLError", None)

\* the constructor of Floorarea when the downloads of the regions `down` fail
Floorarea_init(rem, cdir, c, state, county, year_, down) ==
    LET year == IF year_ = NoYear THEN Floorarea_YEAR ELSE year_[2]
        miss == FloorareaFile \notin DOMAIN c
        loads == LoadRegions(rem, year, down, 0,
                             [cache |-> c, fetched |-> << >>, data |-> << >>, failed |-> FALSE])
        data0 == IF miss THEN ConcatFrames(loads.data) ELSE Frame(c[FloorareaFile])
        cache1 == IF miss THEN (FloorareaFile :> RowsCsv(data0)) @@ loads.cache ELSE c
        fetched == IF miss THEN loads.fetched ELSE << >>
        data == [data0 EXCEPT !.rows = [i \in 1..Len(data0.rows) |->
                    [data0.rows[i] EXCEPT !.BUILDING_TYPE = JoinCodes(@)]]]
        n == Len(data.rows)
        ofstate == {i \in 1..n : data.rows[i].ST = state}
        pick(S, fields) ==
            LET k == Cardinality(S)
                at == [j \in 1..k |-> CHOOSE i \in S : Cardinality({h \in S : h < i}) = j - 1]
            IN  [j \in 1..k |-> [f \in fields |-> data.rows[at[j]][f]]]
    IN  IF miss /\ loads.failed
        THEN Interrupted(loads)
        ELSE IF state = None /\ county = None
        THEN Ret(TRUE, cache1, fetched, << >>, "ok", data)
        ELSE IF state # None /\ county = None
        THEN IF ofstate = {} THEN Ret(TRUE, cache1, fetched, << >>, "KeyError", None)
             ELSE Ret(TRUE, cache1, fetched, << >>, "ok",
                      [ labels |-> [j \in 1..Cardinality(ofstate) |-> state],
                        rows   |-> pick(ofstate, {"FIPS", "BUILDING_TYPE", "FLOORAREA"}) ])
        ELSE IF state = None \/ ~CountyKnown(state, county)
        THEN Ret(TRUE, cache1, fetched, << >>, "CountyError", None)
        ELSE LET fips == CountyFIPS(state, county)
                 S == {i \in ofstate : data.rows[i].FIPS = fips}
             IN  IF S = {} THEN Ret(TRUE, cache1, fetched, << >>, "KeyError", None)
                 ELSE Ret(TRUE, cache1, fetched, << >>, "ok",
                          [ labels |-> [j \in 1..Cardinality(S) |-> <<state, fips>>],
                            rows   |-> pick(S, {"BUILDING_TYPE", "FLOORAREA"}) ])

\* the constructor of Floorarea when every download is answered
Floorarea(rem, cdir, c, state, county, year_) ==
    Floorarea_init(rem, cdir, c, state, county, year_, {})

\* bts.split("|"): the codes of the text; the empty text has one empty code
SplitCodes(bts) == IF bts = << >> THEN <<"">> ELSE bts

\* actual_areas.FLOORAREA.sum()
AreasSum(actual_areas) ==
    SumSeq([i \in 1..Len(actual_areas) |-> actual_areas[i].FLOORAREA], 1, Zero)

\* a variant of SplitRow that gives every code the whole area of the row
SplitRowWhole(area, codes, actual_areas_sum) ==
    [i \in 1..Len(codes) |->
        [ BUILDING_TYPE |-> IF codes[i] # "" THEN codes[i] ELSE "OTH",
          FLOORAREA |-> area.FLOORAREA,
          SPLITS |-> area.BUILDING_TYPE,
          FRACTION |-> RDiv(area.FLOORAREA, actual_areas_sum) ]]

\* the rows of split_areas of one row of actual_areas
SplitRow(area, codes, actual_areas_sum) ==
    [i \in 1..Len(codes) |->
        [ BUILDING_TYPE |-> IF codes[i] # "" THEN codes[i] ELSE "OTH",
          FLOORAREA |-> RDiv(area.FLOORAREA, R(Len(codes))),
          SPLITS |-> area.BUILDING_TYPE,
          FRACTION |-> RDiv(area.FLOORAREA, actual_areas_sum) ]]

\* "split floor areas by building type": the rows of split_areas
SplitAreas(actual_areas) ==
    Concat([i \in 1..Len(actual_areas) |->
               SplitRow(actual_areas[i], SplitCodes(actual_areas[i].BUILDING_TYPE),
                        AreasSum(actual_areas))],
           1, << >>)

\* split_areas.loc[btype].FLOORAREA
AreaOf(split_areas, bt) ==
    split_areas[CHOOSE i \in 1..Len(split_areas) : split_areas[i].BUILDING_TYPE = bt].FLOORAREA

\* Commercial from "collect and consolidate data" on
Weighted(split_areas, loads) ==
    IF \E bt \in SeqRange(COMstock_BUILDING_TYPES) :
           \A i \in 1..Len(split_areas) : split_areas[i].BUILDING_TYPE # bt
    THEN Raised(TRUE, loads.cache, loads.fetched, loads.warned, "KeyError", loads.loaders)
    ELSE Returned(loads.cache, loads.fetched, loads.warned, loads.loaders,
                  Consolidate(COMstock_BUILDING_TYPES, Commercial_COLLECT, loads.index,
                              loads.data, loads.units,
                              [bt \in SeqRange(COMstock_BUILDING_TYPES) |->
                                  AreaOf(split_areas, bt)]))

\* Commercial after the call of Floorarea
Split(rem, state, county, freq, actual_areas) ==
    IF actual_areas.outcome # "ok"
    THEN Raised(TRUE, actual_areas.cache, actual_areas.fetched, << >>, actual_areas.outcome,
                <<<<"Floorarea">>>>)
    ELSE Weighted(SplitAreas(actual_areas.result.rows),
                  LoadTypes("COM", rem, state, county, freq, COMstock_BUILDING_TYPES, 1,
                            Before(actual_areas.cache, actual_areas.fetched,
                                   <<<<"Floorarea">>>>)))

\* the constructor of Commercial with the default mapping
Commercial(rem, cdir, c, state, county, freq, year) ==
    IF ~(state \in States /\ county \in CountiesOf(state))
    THEN Raised(cdir, c, << >>, << >>, "AssertionError", << >>)
    ELSE Split(rem, state, county, freq, Floorarea(rem, TRUE, c, state, county, year))

-----------------------------------------------------------------------------
(* Weather: the weather of a county *)

\* State(ST=state).TZOFFSET in hours, on the scaled calendar
TZOFFSET == ("CA" :> -(EstOffsetHours + 1)) @@ ("TX" :> -EstOffsetHours)

\* floor(x) of a finite number
Floor(x) == IF x[1] >= 0 THEN x[1] \div x[2] ELSE -((-x[1] + x[2] - 1) \div x[2])

\* Series.round(1): to one decimal, a tie to the even digit
Round1(x) ==
    IF ~IsFinite(x) THEN x
    ELSE LET y == RMul(x, R(10))
             f == Floor(y)
             twice == RSub(RMul(y, R(2)), R(2 * f))
             up == RLess(R(1), twice) \/ (twice = R(1) /\ f % 2 = 1)
         IN  RDiv(R(IF up THEN f + 1 ELSE f), R(10))

WeatherColumns ==
    <<"temperature[degF]", "humidity[%]", "global[W/m^2]", "direct[W/m^2]", "diffuse[W/m^2]">>

\* the weather file of a county: one row per hour of the year, labelled by the
\* end of the hour in local standard time
WeatherSource(rem, fips) ==
    [ index |-> [h \in 1..HoursPerYear |-> h * TicksPerHour],
      cols  |-> [x \in SeqRange(WeatherColumns) |-> [h \in 1..HoursPerYear |->
                    IF x = "temperature[degF]" THEN R(rem.level * (h + (fips % 10)))
                    ELSE IF x = "humidity[%]" THEN RDiv(R(100 * h + 25 * rem.level), R(20))
                    ELSE R(rem.level * 10 * h)]] ]

WeatherFile(state, county) == <<"weather", state, county, ".csv.gz">>

\* the constructor of Weather
Weather(rem, cdir, c, state, county) ==
    LET file == WeatherFile(state, county)
        fold(data) == SortIndex(FoldIndex(data))
    IN  IF file \in DOMAIN c
        THEN Ret(TRUE, c, << >>, << >>, "ok", fold(c[file]))
        ELSE IF ~CountyKnown(state, county)
        THEN Ret(TRUE, c, << >>, << >>, "CountyError", None)
        ELSE LET fips == CountyFIPS(state, county)
                 tzoffset == TZOFFSET[state]
                 read == WeatherSource(rem, fips)
                 data == [ index |-> [i \in 1..Len(read.index) |->
                                         read.index[i] - (tzoffset + 1) * TicksPerHour],
                           cols  |-> [x \in DOMAIN read.cols |-> [i \in 1..Len(read.index) |->
                                         IF x = "temperature[degF]"
                                         THEN RAdd(RDiv(RMul(read.cols[x][i], R(9)), R(5)), R(32))
                                         ELSE IF x = "humidity[%]" THEN Round1(read.cols[x][i])
                                         ELSE read.cols[x][i]]] ]
             IN  Ret(TRUE, (file :> data) @@ c, <<<<"weather", fips>>>>, << >>, "ok", fold(data))

-----------------------------------------------------------------------------
(* Industry and Agriculture: the annual energy use of the counties *)

\* the keys of COLUMNS that have a group, in the order of the dict
Fuels(sector) ==
    IF sector = "IND"
    THEN << "Coal", "Coke_and_breeze", "Diesel", "LPG_NGL", "Natural_gas",
            "Net_electricity", "Other", "Residual_fuel_oil" >>
    ELSE << "Diesel", "LPG_NGL", "Natural_gas", "Net_electricity", "Residual_fuel_oil" >>

EnergyColumns(sector) == IF sector = "IND" THEN Industry_COLUMNS ELSE Agriculture_COLUMNS

\* 1e12 * 0.2931 / 1e6 / 365.2425 / 24 as one fraction: TBTU/y to MWh/h
TBTUyToMW == <<4885000, 146097>>

\* the rows of the source file, not in the order of fips_matching: 6001 has two
\* rows, 6002 is no county of the fips package and 6003 has no row
EnergySource(rem, sector) ==
    LET row(fips, k) == [x \in SeqRange(Fuels(sector)) \cup {"fips_matching", "NAICS"} |->
                            IF x = "fips_matching" THEN fips
                            ELSE IF x = "NAICS" THEN k
                            ELSE rem.level * (k + IndexOf(Fuels(sector), x))]
    IN  <<row(48001, 1), row(6001, 2), row(6002, 3), row(6001, 4)>>

\* sort_values("fips_matching")
SortRows(rows) ==
    LET n == Len(rows)
        before(j, i) == rows[j].fips_matching < rows[i].fips_matching
                            \/ (rows[j].fips_matching = rows[i].fips_matching /\ j < i)
        at == [k \in 1..n |-> CHOOSE i \in 1..n : Cardinality({j \in 1..n : before(j, i)}) = k - 1]
    IN  [k \in 1..n |-> rows[at[k]]]

\* the groups a table has, in the order "collect columns" makes them
Groups(sector) ==
    LET F == Fuels(sector)
        first(i) == \A j \in 1..(i - 1) : EnergyColumns(sector)[F[j]] # EnergyColumns(sector)[F[i]]
        firsts == SelectSeq([i \in 1..Len(F) |-> i], first)
    IN  [k \in 1..Len(firsts) |-> EnergyColumns(sector)[F[firsts[k]]]]

\* the elements of a set of numbers in ascending order
Ascending(S) ==
    [k \in 1..Cardinality(S) |-> CHOOSE x \in S : Cardinality({y \in S : y < x}) = k - 1]

\* groupby(["fips_matching"]).sum() and "collect columns": the fuels of group g
\* over the rows of one FIPS code, converted from TBTU/y to MW
FuelMW(mine, x) ==
    RMul(R(SumInts({<<i, mine[i][x]>> : i \in 1..Len(mine)}, LAMBDA p : p[2], 0)), TBTUyToMW)

GroupMW(sector, mine, g) ==
    LET of == SelectSeq(Fuels(sector), LAMBDA x : EnergyColumns(sector)[x] = g)
    IN  SumSeq([i \in 1..Len(of) |-> FuelMW(mine, of[i])], 1, Zero)

KnownFIPS == {Counties[i].FIPS : i \in 1..Len(Counties)}

SourceFIPS(rows) == {rows[i].fips_matching : i \in 1..Len(rows)}

\* pd.merge(how="outer"): one row per FIPS code of either side, in ascending
\* order; place is the county of the fips package (0 when there is none)
Merged(sector, rows, key) ==
    [k \in 1..Len(key) |->
        [ place  |-> IF key[k] \in KnownFIPS
                     THEN CHOOSE i \in 1..Len(Counties) : Counties[i].FIPS = key[k]
                     ELSE 0,
          values |-> IF key[k] \in SourceFIPS(rows)
                     THEN [g \in SeqRange(Groups(sector)) |->
                              GroupMW(sector,
                                      SelectSeq(rows, LAMBDA r : r.fips_matching = key[k]), g)]
                     ELSE [g \in SeqRange(Groups(sector)) |-> NaN] ]]

\* the last row at or before row k that has a value (0 when there is none)
LastWith(merged, k, has(_)) ==
    LET S == {j \in 1..k : has(merged[j])}
    IN  IF S = {} THEN 0 ELSE CHOOSE j \in S : \A h \in S : h <= j

FilledPlace(merged, p) == IF p = 0 THEN 0 ELSE merged[p].place

FilledValue(merged, v, g) == IF v = 0 THEN NaN ELSE merged[v].values[g]

\* ffill(): a row without a county or without values takes them from the row
\* before it
Filled(sector, merged) ==
    [k \in 1..Len(merged) |->
        [ place  |-> FilledPlace(merged, LastWith(merged, k, LAMBDA r : r.place # 0)),
          values |-> [g \in SeqRange(Groups(sector)) |->
              FilledValue(merged, LastWith(merged, k, LAMBDA r : ~IsNaN(r.values[g])), g)] ]]

SumValues(mine, g) ==
    LET cell(i) == mine[i].values[g]
    IN  SumSkipNaN(1..Len(mine), cell, Zero)

\* groupby(["state","county"]).sum(): one row per county, in the order of the
\* fips package (sorted by state and county)
Grouped(sector, filled, group) ==
    [j \in 1..Len(group) |->
        [ state  |-> Counties[group[j]].ST,
          county |-> Counties[group[j]].COUNTY,
          values |-> [g \in SeqRange(Groups(sector)) |->
              SumValues(SelectSeq(filled, LAMBDA r : r.place = group[j]), g)] ]]

GroupFilled(sector, filled) ==
    Grouped(sector, filled, Ascending({filled[k].place : k \in 1..Len(filled)} \ {0}))

\* from "remove unwanted columns" to the groupby of state and county
CountyEnergy(sector, rows) ==
    GroupFilled(sector,
                Filled(sector, Merged(sector, rows, Ascending(SourceFIPS(rows) \cup KnownFIPS))))

\* the files the sources publish, sorted as the constructors write them
EnergyFiles(sector) == {SortRows(EnergySource(rem, sector)) : rem \in Remotes}

\* CountyEnergy of every file, tabulated
CountyEnergies ==
    [sector \in {"IND", "AGR"} |->
        [rows \in EnergyFiles(sector) |-> CountyEnergy(sector, rows)]]

EnergyFile(sector) == IF sector = "IND" THEN <<"industry.csv.gz">> ELSE <<"agriculture.csv.gz">>

\* `loadshape` is None, a data frame (kind "frame") or a dict (kind "dict")
NoShape == [kind |-> "None"]

\* the label of a column of a data frame is an integer or a string
IntLabel(n) == <<"int", n>>

StrLabel(s) == <<"str", s>>

\* a variant of Rollout that keeps the whole repetitions only
RolloutWhole(shape, n) ==
    Concat([i \in 1..(n \div Len(shape)) |-> shape], 1, << >>)

\* shape repeated over the n rows of the date range
Rollout(shape, n) ==
    LET m == Len(shape)
        whole == Concat([i \in 1..(n \div m) |-> shape], 1, << >>)
    IN  whole \o SubSeq(shape, 1, n % m)

\* the constructor of Industry (sector "IND") and of Agriculture ("AGR")
EnergyUse(sector, rem, cdir, c, state, county, loadshape) ==
    LET file == EnergyFile(sector)
        miss == file \notin DOMAIN c
        rows == IF miss THEN SortRows(EnergySource(rem, sector)) ELSE c[file]
        cache1 == IF miss THEN (file :> rows) @@ c ELSE c
        fetched == IF miss THEN <<<<"energy", sector>>>> ELSE << >>
        G == Groups(sector)
        data == CountyEnergies[sector][rows]
        ofstate == SelectSeq(data, LAMBDA r : r.state = state)
        ofcounty == SelectSeq(data, LAMBDA r : r.state = state /\ r.county = county)
        ret(outcome, result) == Ret(TRUE, cache1, fetched, << >>, outcome, result)
        table(index, shape) ==
            \* the values of the county are unpacked in the order of its columns
            LET value == [k \in 1..Len(G) |-> ofcounty[1].values[G[k]]]
            IN  [ index |-> index,
                  cols  |-> ("nonelec_total_MW" :> [i \in 1..Len(shape) |-> RMul(shape[i], value[1])])
                         @@ ("elec_net_MW" :> [i \in 1..Len(shape) |-> RMul(shape[i], value[2])]) ]
    IN  IF state = None /\ county = None
        THEN ret("ok", [index |-> [i \in 1..Len(data) |-> <<data[i].state, data[i].county>>],
                        columns |-> G,
                        values |-> [i \in 1..Len(data) |-> data[i].values]])
        ELSE IF county = None
        THEN IF Len(ofstate) = 0 THEN ret("KeyError", None)
             ELSE ret("ok", [index |-> [i \in 1..Len(ofstate) |-> ofstate[i].county],
                             columns |-> G,
                             values |-> [i \in 1..Len(ofstate) |-> ofstate[i].values]])
        ELSE IF Len(ofcounty) = 0 THEN ret("KeyError", None)
        ELSE IF loadshape = NoShape
        THEN ret("ok", [index |-> G, values |-> ofcounty[1].values])
        ELSE IF loadshape.kind = "frame"
        THEN IF Len(loadshape.columns) # 1 THEN ret("AssertionError", None)
             \* loadshape[0] is the column labelled with the integer 0
             ELSE IF loadshape.columns[1] # IntLabel(0) THEN ret("KeyError", None)
             ELSE ret("ok", table(loadshape.index, loadshape.cols[1]))
        ELSE LET dt_index == DateRange(loadshape.start, loadshape.end, loadshape.freq)
             IN  IF Len(loadshape.shape) = 0 THEN ret("ZeroDivisionError", None)
                 ELSE ret("ok", table(dt_index, Rollout(loadshape.shape, Len(dt_index))))

Industry(rem, cdir, c, state, county, loadshape) ==
    EnergyUse("IND", rem, cdir, c, state, county, loadshape)

Agriculture(rem, cdir, c, state, county, loadshape) ==
    EnergyUse("AGR", rem, cdir, c, state, county, loadshape)

-----------------------------------------------------------------------------
(* cache_clear *)

\* a variant of cache_clear that stops at the first deletion that fails
cache_clear_until(cdir, c, failing) ==
    IF ~cdir THEN Ret(cdir, c, << >>, << >>, "FileNotFoundError", None)
    ELSE IF DOMAIN c \cap failing # {} THEN Ret(cdir, c, << >>, << >>, "OSError", None)
    ELSE Ret(cdir, << >>, << >>, << >>, "ok", None)

\* loads.cache.cache_clear: os.listdir raises when the folder does not exist;
\* every file of the folder is deleted but the ones whose deletion fails, and
\* each of these gives a warning
cache_clear(cdir, c, failing) ==
    IF ~cdir THEN Ret(cdir, c, << >>, << >>, "FileNotFoundError", None)
    ELSE Ret(cdir, [f \in DOMAIN c \cap failing |-> c[f]], << >>,
             [i \in 1..Cardinality(DOMAIN c \cap failing) |-> "delete failed"], "ok", None)

\* loads.cache_clear, the function of the same name in the package module:
\* the module imports neither os nor warnings, so its first statement raises
loads_cache_clear(cdir, c) == Ret(cdir, c, << >>, << >>, "NameError", None)

-----------------------------------------------------------------------------
(* main: the command line *)

\* exit codes
E_OK == 0

E_FAILED == 1

\* choices of the argument "sector"
SectorChoices == {"residential", "commercial", "industrial", "agricultural", "weather"}

\* the classes that define makeargs
WithMakeargs == {"RESstock", "Residential", "COMstock", "Commercial", "Weather"}

\* the class main takes the data from
SourceOf(args) ==
    IF args.sector = "residential"
    THEN IF args.building_type # None THEN "RESstock" ELSE "Residential"
    ELSE IF args.sector = "commercial"
    THEN IF args.building_type # None THEN "COMstock" ELSE "Commercial"
    ELSE IF args.sector = "industrial" THEN "Industry"
    ELSE IF args.sector = "agricultural" THEN "Agriculture"
    ELSE "Weather"

\* source(**source.makeargs(**vars(args))): the arguments of the constructor
\* that are options of the command are passed, the others have their defaults
Construct(source, rem, cdir, c, args) ==
    IF source \notin WithMakeargs
    THEN Ret(cdir, c, << >>, << >>, "AttributeError", None)
    ELSE IF source = "RESstock"
    THEN RESstock(rem, cdir, c, args.state, args.county, args.building_type, "1h")
    ELSE IF source = "COMstock"
    THEN COMstock(rem, cdir, c, args.state, args.county, args.building_type, "1h")
    ELSE IF source = "Residential"
    THEN Residential(rem, cdir, c, args.state, args.county, "1h", args.year, 0)
    ELSE IF source = "Commercial"
    THEN Commercial(rem, cdir, c, args.state, args.county, "1h", args.year)
    ELSE Weather(rem, cdir, c, args.state, args.county)

\* the end of a file name, for the names the command is given
Suffix == ("out.csv" :> ".csv") @@ ("out.txt" :> ".txt")

\* "handle default output" to the end of the try block: where the data goes,
\* or the error raised
Output(args) ==
    IF args.output = None
    THEN IF args.format = None THEN [to |-> "stdout", as |-> "table", error |-> None]
         ELSE IF args.format = "csv" THEN [to |-> "stdout", as |-> "csv", error |-> None]
         ELSE [to |-> None, as |-> None, error |-> "ValueError"]
    ELSE IF Suffix[args.output] = ".csv" \/ args.format = "csv"
    THEN [to |-> args.output, as |-> "csv", error |-> None]
    ELSE IF args.format \in {"gzip", "zip", "xlsx"}
    THEN [to |-> args.output, as |-> args.format, error |-> None]
    ELSE [to |-> None, as |-> None, error |-> "ValueError"]

\* what a run of main leaves: the value returned (none when main is left by
\* an exception), the lines printed, and the data written with its destination
Ran(r, outcome, returns, printed, written) ==
    Ret(r.cachedir, r.cache, r.fetched, r.warned, outcome,
        [returns |-> returns, printed |-> printed, written |-> written])

\* parser.parse_args() on arguments it rejects: usage and the error on stderr,
\* then SystemExit with the status E_SYNTAX, which is no Exception
Rejected(cdir, c) ==
    Ret(cdir, c, << >>, << >>, "SystemExit",
        [returns |-> << >>, printed |-> <<"usage">>, written |-> << >>])

\* a variant of Failed that returns E_FAILED with --debug too
FailedQuietly(r, args, error) ==
    Ran(r, "ok", <<E_FAILED>>, <<"ERROR [loads]">>, << >>)

\* the handler of `except Exception`
Failed(r, args, error) ==
    IF args.debug THEN Ran(r, error, << >>, << >>, << >>)
    ELSE Ran(r, "ok", <<E_FAILED>>, <<"ERROR [loads]">>, << >>)

main(rem, cdir, c, args) ==
    IF args.sector \notin SectorChoices
    THEN Rejected(cdir, c)
    ELSE LET source == SourceOf(args)
             data == Construct(source, rem, cdir, c, args)
             out == Output(args)
         IN  IF data.outcome # "ok" THEN Failed(data, args, data.outcome)
             ELSE IF out.error # None THEN Failed(data, args, out.error)
             ELSE Ran(data, "ok", <<E_OK>>,
                      IF out.to = "stdout" THEN <<out.as>> ELSE << >>,
                      <<[source |-> source, precision |-> args.precision,
                         to |-> out.to, as |-> out.as]>>)

-----------------------------------------------------------------------------
(* The state machine: a remote world is chosen, then up to MaxCalls calls *)

\* the requests the calls make: a state and county of the fips package, the
\* state alone, a county of another state, and a state that does not exist
Places ==
    { <<"CA", "Alameda">>, <<"CA", None>>, <<"CA", "Anderson">>, <<"ZZ", None>> }

Valid == <<"CA", "Alameda">>

AskedTypes(sector) ==
    IF sector = "RES" THEN {"RSD", "RMH", "CLF"} ELSE {"CLF", "CLH", "RSD"}

StockRequests(sector) ==
    { q \in [ state : {"CA", "ZZ"}, county : {"Alameda", "Anderson", None},
              building_type : AskedTypes(sector), freq : Freqs ] :
        /\ <<q.state, q.county>> \in Places
        /\ <<q.state, q.county>> # Valid
              => (q.freq = "1h" /\ q.building_type = SectorTypes(sector)[1]) }

\* "Al" is no county: the labels of two counties start with it
UnitsRequests ==
    { q \in [ state : {"CA", "ZZ"}, county : {"Alameda", "Anderson", "Al", None},
              year : {NoYear, <<"int", UnitYears[1]>>},
              timeouts : {0, 1, Units_retry - 1, Units_retry} ] :
        /\ <<q.state, q.county>> \in Places \cup {<<"CA", "Al">>}
        /\ <<q.state, q.county>> # Valid => (q.year = NoYear /\ q.timeouts = 0)
        /\ q.timeouts \notin {0, Units_retry} => q.year = NoYear }

LegacyRequests ==
    { q \in UnitsRequests : q.state = "CA" /\ q.timeouts \in {0, Units_retry} }

\* the regions whose download fails during a call of Floorarea: none, or the
\* third of the five
Downs == {{}, {2}}

FloorareaRequests ==
    { q \in [ state : {"CA", "ZZ", None}, county : {"Alameda", "Anderson", None},
              year : {NoYear, <<"int", Floorarea_YEAR + 1>>}, down : Downs ] :
        /\ <<q.state, q.county>> \in Places \cup {<<None, None>>}
        /\ q.state = "ZZ" => q.year = NoYear }

WeatherRequests ==
    { q \in [ state : {"CA"}, county : {"Alameda", "Anderson"} ] : TRUE }

Shapes ==
    { NoShape,
      [ kind |-> "dict", shape |-> <<R(1), R(2), R(3)>>, start |-> 0,
        end |-> TicksPerYear - TicksPerHour, freq |-> "1h" ],
      [ kind |-> "dict", shape |-> <<R(1), R(2)>>, start |-> 0,
        end |-> TicksPerYear - TicksPerHour, freq |-> "1h" ],
      [ kind |-> "dict", shape |-> <<R(1), R(2), R(3)>>, start |-> 0,
        end |-> TicksPerHour, freq |-> "1h" ],
      [ kind |-> "frame", columns |-> <<IntLabel(0)>>, index |-> <<0, TicksPerHour>>,
        cols |-> <<<<R(1), R(3)>>>> ],
      [ kind |-> "frame", columns |-> <<StrLabel("load")>>, index |-> <<0, TicksPerHour>>,
        cols |-> <<<<R(1), R(3)>>>> ] }

EnergyRequests ==
    { q \in [ state : {"CA", "ZZ", None}, county : {"Alameda", None}, loadshape : Shapes ] :
        /\ <<q.state, q.county>> \in Places \cup {<<None, None>>}
        /\ <<q.state, q.county>> # Valid => q.loadshape = NoShape }

ResidentialRequests ==
    { q \in [ state : {"CA", "ZZ"}, county : {"Alameda", "Anderson"}, freq : Freqs,
              year : {NoYear, <<"int", UnitYears[1]>>}, timeouts : {0, Units_retry} ] :
        /\ <<q.state, q.county>> # Valid \/ q.freq # "1h"
              => (q.year = NoYear /\ q.timeouts = 0)
        /\ <<q.state, q.county>> # Valid => q.freq = "1h"
        /\ q.year # NoYear => q.timeouts = 0 }

CommercialRequests ==
    { q \in [ state : {"CA", "ZZ"}, county : {"Alameda", "Anderson"}, freq : Freqs,
              year : {NoYear, <<"int", Floorarea_YEAR + 1>>} ] :
        /\ <<q.state, q.county>> # Valid \/ q.freq # "1h" => q.year = NoYear
        /\ <<q.state, q.county>> # Valid => q.freq = "1h" }

\* no call has been made yet
\* the command lines given to main: each sector for a county of the fips
\* package, raw stock data, and arguments that are not valid
MainRequests ==
    LET line(state, county, sector, building_type, output, format, debug) ==
            [ state |-> state, county |-> county, sector |-> sector, year |-> NoYear,
              building_type |-> building_type, output |-> output, format |-> format,
              precision |-> 3, debug |-> debug ]
    IN  { line("CA", "Alameda", sector, None, None, None, FALSE) : sector \in SectorChoices }
        \cup { line("CA", "Alameda", "residential", bt, None, None, FALSE) : bt \in {"RSD", "CLF"} }
        \cup { line("CA", "Alameda", "commercial", "CLF", None, "csv", FALSE),
               line("CA", "Alameda", "weather", None, "out.csv", None, FALSE),
               line("CA", "Alameda", "weather", None, "out.txt", None, FALSE),
               line("CA", "Alameda", "weather", None, "out.txt", "gzip", FALSE),
               line("CA", "Alameda", "weather", None, None, "gzip", FALSE),
               line("CA", "Alameda", "public", None, None, None, FALSE),
               line("ZZ", "Alameda", "residential", None, None, None, FALSE),
               line("ZZ", "Alameda", "residential", None, None, None, TRUE),
               line("CA", "Anderson", "weather", None, None, None, FALSE),
               line("CA", "Anderson", "commercial", None, None, None, TRUE),
               line("CA", "Alameda", "industrial", None, None, None, TRUE) }

\* the processes of a race
Procs == {1, 2}

\* the blocks to_csv writes one after the other
Blocks == 2

\* the cache file of the loader: missing
NoFile == [exists |-> FALSE, content |-> << >>]

\* what a process knows before it starts
Fresh == [saw |-> "none", fetched |-> FALSE, pos |-> 0, got |-> << >>]

NoCall ==
    [ op |-> "none", args |-> << >>, key |-> << >>, hit |-> FALSE, fetched |-> << >>,
      warned |-> << >>, outcome |-> "none", result |-> None, loaders |-> << >>,
      locals |-> None ]

Init ==
    /\ remote \in Remotes
    /\ cachedir = FALSE
    /\ cache = << >>
    /\ legacy = [dir |-> FALSE, files |-> << >>]
    /\ last = NoCall
    /\ ncalls = 0
    /\ loader = "none"
    /\ pc = [p \in Procs |-> "done"]
    /\ path = NoFile
    /\ proc = [p \in Procs |-> Fresh]

\* a call of `op` with the arguments `args` whose cache file is `key` ended as r
Called(op, args, key, r) ==
    /\ ncalls < MaxCalls
    /\ ncalls' = ncalls + 1
    /\ cachedir' = r.cachedir
    /\ cache' = r.cache
    /\ last' = [ op |-> op, args |-> args, key |-> key, hit |-> key \in DOMAIN cache,
                 fetched |-> r.fetched, warned |-> r.warned, outcome |-> r.outcome,
                 result |-> r.result,
                 loaders |-> IF "loaders" \in DOMAIN r THEN r.loaders ELSE << >>,
                 locals |-> IF "locals" \in DOMAIN r THEN r.locals ELSE None ]
    /\ UNCHANGED <<remote, legacy, loader, pc, path, proc>>

CallRESstock ==
    \E q \in StockRequests("RES") :
        Called("RESstock", q, StockFile(q.state, q.county, q.building_type),
               RESstock(remote, cachedir, cache, q.state, q.county, q.building_type, q.freq))

CallCOMstock ==
    \E q \in StockRequests("COM") :
        Called("COMstock", q, StockFile(q.state, q.county, q.building_type),
               COMstock(remote, cachedir, cache, q.state, q.county, q.building_type, q.freq))

CallUnits ==
    \E q \in UnitsRequests :
        Called("Units", q, UnitsFile(q.state),
               Units(remote, cachedir, cache, q.state, q.county, q.year, q.timeouts))

\* resstock.units.Units
CallLegacyUnits ==
    \E q \in LegacyRequests :
        LET r == LegacyUnits(remote, legacy, q.state, q.county, q.year, q.timeouts)
        IN  /\ ncalls < MaxCalls
            /\ ncalls' = ncalls + 1
            /\ legacy' = r.legacy
            /\ last' = [ op |-> "resstock.Units", args |-> q, key |-> UnitsFile(q.state),
                         hit |-> UnitsFile(q.state) \in DOMAIN legacy.files,
                         fetched |-> r.fetched, warned |-> r.warned, outcome |-> r.outcome,
                         result |-> r.result, loaders |-> << >>, locals |-> None ]
            /\ UNCHANGED <<remote, cachedir, cache, loader, pc, path, proc>>

\* a call of Floorarea on this cache downloads region n
AttemptsRegion(c, n) == FloorareaFile \notin DOMAIN c /\ RegionFile(n) \notin DOMAIN c

\* a download fails only in a call that attempts it
CallFloorarea ==
    \E q \in FloorareaRequests :
        /\ q.down # {} => \E n \in q.down : AttemptsRegion(cache, n)
        /\ Called("Floorarea", q, FloorareaFile,
                  Floorarea_init(remote, cachedir, cache, q.state, q.county, q.year, q.down))

CallWeather ==
    \E q \in WeatherRequests :
        Called("Weather", q, WeatherFile(q.state, q.county),
               Weather(remote, cachedir, cache, q.state, q.county))

CallIndustry ==
    \E q \in EnergyRequests :
        Called("Industry", q, EnergyFile("IND"),
               Industry(remote, cachedir, cache, q.state, q.county, q.loadshape))

CallAgriculture ==
    \E q \in EnergyRequests :
        Called("Agriculture", q, EnergyFile("AGR"),
               Agriculture(remote, cachedir, cache, q.state, q.county, q.loadshape))

CallResidential ==
    \E q \in ResidentialRequests :
        Called("Residential", q, << >>,
               Residential(remote, cachedir, cache, q.state, q.county, q.freq, q.year,
                           q.timeouts))

CallCommercial ==
    \E q \in CommercialRequests :
        Called("Commercial", q, << >>,
               Commercial(remote, cachedir, cache, q.state, q.county, q.freq, q.year))

\* at most one file of the cache folder cannot be deleted
CallMain ==
    \E q \in MainRequests :
        Called("main", q, << >>, main(remote, cachedir, cache, q))

\* a call that clears the cache ended as r; it is not one of the MaxCalls calls
Cleared(op, args, r) ==
    /\ cachedir' = r.cachedir
    /\ cache' = r.cache
    /\ last' = [ NoCall EXCEPT !.op = op, !.args = args, !.warned = r.warned,
                                !.outcome = r.outcome ]
    /\ UNCHANGED <<remote, legacy, ncalls, loader, pc, path, proc>>

\* the files whose deletion may fail
Undeletable == {EnergyFile("IND"), EnergyFile("AGR")}

\* loads.cache.cache_clear; the deletion of at most one file fails
CallCacheClear ==
    \E failing \in {{}} \cup {{f} : f \in DOMAIN cache \cap Undeletable} :
        Cleared("cache_clear", [failing |-> failing], cache_clear(cachedir, cache, failing))

\* loads.cache_clear
CallLoadsCacheClear ==
    Cleared("loads.cache_clear", [failing |-> {}], loads_cache_clear(cachedir, cache))

Next ==
    \/ CallRESstock
    \/ CallCOMstock
    \/ CallUnits
    \/ CallLegacyUnits
    \/ CallFloorarea
    \/ CallWeather
    \/ CallIndustry
    \/ CallAgriculture
    \/ CallResidential
    \/ CallCommercial
    \/ CallMain
    \/ CallCacheClear
    \/ CallLoadsCacheClear

Spec == Init /\ [][Next]_vars

-----------------------------------------------------------------------------
(* Two processes call the same loader for the same cache file.  The steps  *)
(* of a process are the system calls of the constructor: each is atomic,   *)
(* the constructor is not.  RESstock reads the file after it wrote it;     *)
(* Industry uses the data it fetched.                                      *)

\* the file when every block is written
Whole == [k \in 1..Blocks |-> k]

RaceInit ==
    /\ remote = [level |-> 1, missing |-> {}, blank |-> FALSE, coverage |-> "full"]
    /\ cachedir = FALSE
    /\ cache = << >>
    /\ legacy = [dir |-> FALSE, files |-> << >>]
    /\ last = NoCall
    /\ ncalls = 0
    /\ loader \in {"RESstock", "Industry"}
    /\ pc = [p \in Procs |-> "makedirs"]
    /\ path = NoFile
    /\ proc = [p \in Procs |-> Fresh]

\* os.makedirs(self.CACHEDIR,exist_ok=True)
MakeDirs(p) ==
    /\ pc[p] = "makedirs"
    /\ pc' = [pc EXCEPT ![p] = "exists"]
    /\ cachedir' = TRUE
    /\ UNCHANGED <<remote, cache, legacy, last, ncalls, loader, path, proc>>

\* a variant of Exists that waits while another process is between its own
\* test and the end of its write
ExistsLocked(p) ==
    /\ pc[p] = "exists"
    /\ \A q \in Procs \ {p} : pc[q] \notin {"fetch", "open", "write"}
    /\ pc' = [pc EXCEPT ![p] = IF path.exists THEN "read" ELSE "fetch"]
    /\ proc' = [proc EXCEPT ![p].saw = IF path.exists THEN "hit" ELSE "miss"]
    /\ UNCHANGED <<callvars, loader, path>>

\* if not os.path.exists(cache)
Exists(p) ==
    /\ pc[p] = "exists"
    /\ pc' = [pc EXCEPT ![p] = IF path.exists THEN "read" ELSE "fetch"]
    /\ proc' = [proc EXCEPT ![p].saw = IF path.exists THEN "hit" ELSE "miss"]
    /\ UNCHANGED <<callvars, loader, path>>

\* pd.read_csv(url)
Fetch(p) ==
    /\ pc[p] = "fetch"
    /\ pc' = [pc EXCEPT ![p] = "open"]
    /\ proc' = [proc EXCEPT ![p].fetched = TRUE]
    /\ UNCHANGED <<callvars, loader, path>>

\* data.to_csv(cache,...) opens the path itself for writing: the file exists
\* from now on and is empty
OpenToWrite(p) ==
    /\ pc[p] = "open"
    /\ pc' = [pc EXCEPT ![p] = "write"]
    /\ path' = [exists |-> TRUE, content |-> << >>]
    /\ proc' = [proc EXCEPT ![p].pos = 0]
    /\ UNCHANGED <<callvars, loader>>

\* the content after block k is written at its place; the blocks before it that
\* nobody wrote are a hole (0)
PutBlock(content, k) ==
    [i \in 1..(IF Len(content) > k THEN Len(content) ELSE k) |->
        IF i = k THEN k ELSE IF i <= Len(content) THEN content[i] ELSE 0]

\* data.to_csv writes the next block at the position of the process
WriteBlock(p) ==
    /\ pc[p] = "write"
    /\ proc[p].pos < Blocks
    /\ path' = [path EXCEPT !.content = PutBlock(@, proc[p].pos + 1)]
    /\ proc' = [proc EXCEPT ![p].pos = @ + 1]
    /\ UNCHANGED <<callvars, loader, pc>>

\* data.to_csv closes the file; Industry goes on with the data it fetched
Close(p) ==
    /\ pc[p] = "write"
    /\ proc[p].pos = Blocks
    /\ pc' = [pc EXCEPT ![p] = IF loader = "RESstock" THEN "read" ELSE "done"]
    /\ proc' = [proc EXCEPT ![p].got = IF loader = "RESstock" THEN @ ELSE <<Whole>>]
    /\ UNCHANGED <<callvars, loader, path>>

\* pd.read_csv(cache): the process gets what the file holds now
Read(p) ==
    /\ pc[p] = "read"
    /\ pc' = [pc EXCEPT ![p] = "done"]
    /\ proc' = [proc EXCEPT ![p].got = <<path.content>>]
    /\ UNCHANGED <<callvars, loader, path>>

\* the next step of the constructor in process p
Step(p) ==
    \/ MakeDirs(p)
    \/ Exists(p)
    \/ Fetch(p)
    \/ OpenToWrite(p)
    \/ WriteBlock(p)
    \/ Close(p)
    \/ Read(p)

RaceNext == \E p \in Procs : Step(p)

RaceSpec == RaceInit /\ [][RaceNext]_vars

-----------------------------------------------------------------------------
(* The properties of the calls *)

Sectors == {"Residential", "Commercial"}

StockLoaders == {"RESstock", "COMstock"}

Loaders == StockLoaders \cup {"Units", "Floorarea", "Industry", "Agriculture", "Weather"}

TypesOf(op) ==
    IF op = "Residential" THEN RESstock_BUILDING_TYPES ELSE COMstock_BUILDING_TYPES

\* the last call was Residential or Commercial and returned its table
SectorTable == last.op \in Sectors /\ last.outcome = "ok"

\* the last call was RESstock or COMstock and returned its table
StockTable == last.op \in StockLoaders /\ last.outcome = "ok"

\* the categories a table of Residential or Commercial has a column of
Categories == SeqRange(COLLECT_KEYS) \ {"nonelec_dg"}

Rows(table) == 1..Len(table.index)

-----------------------------------------------------------------------------
(* C1: the consolidated values *)

\* the sum of the model drivers with each building type counted once
CountedOnce(types, driver) ==
    SumSeq([i \in 1..Len(types) |-> driver[types[i]]], 1, Zero)

\* rate[bt][category] at the timestamp t (NaN when bt has no row at t)
RateAt(loc, bt, a, t) ==
    LET S == {i \in 1..Len(loc.index[bt]) : loc.index[bt][i] = t}
    IN  IF S = {} THEN NaN ELSE loc.data[bt][a][CHOOSE i \in S : TRUE]

\* the sum over the building types of rate * (driver / total) * actual
WeightedSum(types, loc, total, a, t) ==
    SumSeq([i \in 1..Len(types) |->
               RMul(RMul(RateAt(loc, types[i], a, t), RDiv(loc.driver[types[i]], total)),
                    loc.actual[types[i]])], 1, Zero)

\* C1: in every table of Residential and of Commercial, the value of every
\* category at every timestamp is the sum over the building types of
\* rate[bt][category] * (driver[bt] / total_driver) * actual_driver, where
\* total_driver adds up the model driver of every building type once
ConsolidatedIsWeightedSum ==
    SectorTable =>
        \A a \in Categories : \A k \in Rows(last.result) :
            last.result.cols[MW[a]][k]
                = WeightedSum(TypesOf(last.op), last.locals,
                              CountedOnce(TypesOf(last.op), last.locals.driver),
                              a, last.result.index[k])

-----------------------------------------------------------------------------
(* C2: the net load *)

\* C2: in every row of the table of Residential and of Commercial, elec_net_MW
\* is elec_total_MW + elec_dg_MW of that row
NetLoadIsTotalPlusDG ==
    SectorTable =>
        \A k \in Rows(last.result) :
            last.result.cols["elec_net_MW"][k]
                = RAdd(last.result.cols["elec_total_MW"][k], last.result.cols["elec_dg_MW"][k])

\* a table of Residential with distributed generation in a row
NetLoadWithDG ==
    /\ SectorTable
    /\ \E k \in Rows(last.result) :
          /\ IsFinite(last.result.cols["elec_dg_MW"][k])
          /\ last.result.cols["elec_dg_MW"][k] # Zero
          /\ last.result.cols["elec_net_MW"][k] # last.result.cols["elec_total_MW"][k]

-----------------------------------------------------------------------------
(* C3: the categories add up to the total *)

Carriers == {"elec", "nonelec"}

Part(carrier, part) ==
    IF carrier = "elec"
    THEN CASE part = "baseload" -> "elec_baseload" [] part = "cooling" -> "elec_cooling"
           [] part = "heating" -> "elec_heating" [] OTHER -> "elec_total"
    ELSE CASE part = "baseload" -> "nonelec_baseload" [] part = "cooling" -> "nonelec_cooling"
           [] part = "heating" -> "nonelec_heating" [] OTHER -> "nonelec_total"

\* baseload + cooling + heating of a carrier in row k of the series of `cols`
PartsSum(cols, carrier, k) ==
    RAdd(RAdd(cols[Part(carrier, "baseload")][k], cols[Part(carrier, "cooling")][k]),
         cols[Part(carrier, "heating")][k])

\* the columns of the table by category
ByCategory(table) == [a \in Categories |-> table.cols[MW[a]]]

SectorOf(op) == IF op \in {"RESstock", "Residential"} THEN "RES" ELSE "COM"

\* the csv files whose end-use cells are all numbers
NumericCsv ==
    [sector \in {"RES", "COM"} |->
        {name \in DOMAIN StockCsv[sector] :
            \A c \in DOMAIN StockCsv[sector][name].cols :
                \A k \in 1..Len(StockCsv[sector][name].index) :
                    Len(StockCsv[sector][name].cols[c][k]) = 1}]

\* every csv file the last call of Residential or Commercial read holds numbers only
ReadNumbers ==
    \A bt \in SeqRange(TypesOf(last.op)) :
        cache[StockFile(last.args.state, last.args.county, bt)]
            \in NumericCsv[SectorOf(last.op)]

-----------------------------------------------------------------------------
(* C4: the index of a full year *)

\* every hour of the reference year, in ascending order
HoursOfYear == [k \in 1..HoursPerYear |-> (k - 1) * TicksPerHour]

\* the csv files of a full year: their rows lie in HoursPerYear consecutive
\* hours that start in the first day of the reference year
FullYearCsv ==
    [sector \in {"RES", "COM"} |->
        {name \in DOMAIN StockCsv[sector] :
            \E h \in 0..(HoursPerDay - 1) :
                {ToUTC(StockCsv[sector][name].tz, StockCsv[sector][name].index[i]) \div TicksPerHour :
                    i \in 1..Len(StockCsv[sector][name].index)} = h..(h + HoursPerYear - 1)}]

\* the last call returned an hourly table made from input of a full year
HourlyTable ==
    /\ last.outcome = "ok"
    /\ \/ last.op = "Weather"
       \/ /\ last.op \in StockLoaders /\ last.args.freq = "1h"
          /\ cache[last.key] \in FullYearCsv[SectorOf(last.op)]
       \/ /\ last.op \in Sectors /\ last.args.freq = "1h"
          /\ \A bt \in SeqRange(TypesOf(last.op)) :
                cache[StockFile(last.args.state, last.args.county, bt)]
                    \in FullYearCsv[SectorOf(last.op)]

\* C4: for input of a full year, the index of the hourly table RESstock,
\* COMstock, Residential, Commercial and Weather return has one row for every
\* hour of the reference year, none twice, in ascending order
FullYearIndex == HourlyTable => last.result.index = HoursOfYear

\* an hourly table of RESstock made from the file of the source, whose last
\* rows are in the next year
FullYearFolded ==
    /\ last.op = "RESstock" /\ HourlyTable
    /\ last.key \in DOMAIN cache /\ Len(cache[last.key]) = 3
    /\ Len(last.result.index) = HoursPerYear

-----------------------------------------------------------------------------
(* C5: the columns of the table *)

-----------------------------------------------------------------------------
(* C6: the source has no data for a building type *)

\* the last call of RESstock or COMstock found no cache file and the source
\* answered its fetch with an HTTP error
FetchFailed ==
    /\ last.op \in StockLoaders /\ ~last.hit /\ last.fetched # << >>
    /\ ReadUrl(remote, SectorOf(last.op), last.args.state, last.args.county,
               last.args.building_type) = HTTPError

\* the rows of the table lie in the reference year, from its first day to its last
SpansYear(index) ==
    /\ Len(index) > 0
    /\ \A k \in 1..Len(index) : index[k] \in 0..(TicksPerYear - 1)
    /\ index[1] < TicksPerDay
    /\ index[Len(index)] >= TicksPerYear - TicksPerDay

\* C6: when the fetch of a building type fails with an HTTP error on a cache
\* miss, RESstock and COMstock warn and return a table that spans the reference
\* year instead of raising, for every freq, None included
FetchFailureDegrades ==
    FetchFailed =>
        /\ last.outcome = "ok"
        /\ "nodata" \in SeqRange(last.warned)
        /\ SpansYear(last.result.index)

\* a failed fetch at the native resolution: the table has one row per day
FetchFailedNative ==
    /\ FetchFailed /\ last.args.freq = None /\ last.outcome = "ok"
    /\ Len(last.result.index) = DaysPerYear

-----------------------------------------------------------------------------
(* C7: a building type without stock *)

\* the cache file the last call of RESstock or COMstock read is the all zeros one
ReadZeros == StockTable /\ Len(cache[last.key]) = 2

\* the consolidated value of category a in the row of timestamp t when the
\* building types without stock add nothing: the others' rates, weighted as the
\* constructor weights them
OthersSum(types, loc, a, t) ==
    SumSeq([i \in 1..Len(types) |->
                IF loc.driver[types[i]] = Zero THEN Zero
                ELSE RMul(RMul(RateAt(loc, types[i], a, t),
                               RDiv(loc.driver[types[i]], loc.total)),
                          loc.actual[types[i]])], 1, Zero)

\* C7: a building type whose stock is 0 gets a table of RESstock and of COMstock
\* whose end uses are all exactly 0, and it adds exactly 0 to every category of
\* Residential and Commercial when another building type has stock
ZeroStockIsZero ==
    /\ ReadZeros =>
          \A c \in DOMAIN last.result.cols \ {DriverName(SectorOf(last.op))} :
              \A k \in Rows(last.result) : last.result.cols[c][k] = Zero
    /\ /\ SectorTable
       /\ \E bt \in SeqRange(TypesOf(last.op)) : last.locals.driver[bt] = Zero
       /\ \E bt \in SeqRange(TypesOf(last.op)) : RLess(Zero, last.locals.driver[bt])
       => \A a \in Categories : \A k \in Rows(last.result) :
              last.result.cols[MW[a]][k]
                  = OthersSum(TypesOf(last.op), last.locals, a, last.result.index[k])

-----------------------------------------------------------------------------
(* C8: configuration errors *)

\* the arguments of the call are a configuration error
ConfigurationError(op, args) ==
    \/ op \in Sectors /\ ~(args.state \in States /\ args.county \in CountiesOf(args.state))
    \/ op \in StockLoaders /\ args.building_type \notin SeqRange(SectorTypes(SectorOf(op)))

\* C8: Residential and Commercial called with an unknown state or a county not
\* in the state, and RESstock and COMstock called with a building_type that is
\* not a key of BUILDING_TYPES, raise before a loader is called, before a fetch
\* is made and before the cache folder or a cache file is created or changed
FailsFast ==
    [][ConfigurationError(last'.op, last'.args) =>
            /\ last'.outcome = "AssertionError"
            /\ last'.loaders = << >>
            /\ last'.fetched = << >>
            /\ cache' = cache
            /\ cachedir' = cachedir]_vars

\* a configuration error of Residential or Commercial over a cache with files
FailedFast ==
    /\ ConfigurationError(last.op, last.args) /\ last.op \in Sectors
    /\ last.outcome = "AssertionError"
    /\ cache # << >>

-----------------------------------------------------------------------------
(* C9: the cache *)

\* C9: a loader that finds the cache file of its key fetches nothing, and after
\* a loader returned the cache file of its key exists, so that the second of two
\* calls in a row with the same parameters fetches nothing
CacheServes ==
    [][last'.op \in Loaders =>
            /\ last'.key \in DOMAIN cache => last'.fetched = << >>
            /\ last'.outcome = "ok" => last'.key \in DOMAIN cache'
            /\ (last.op = last'.op /\ last.args = last'.args /\ last.outcome = "ok")
                  => last'.fetched = << >>]_vars

\* a loader returned from its cache file after an earlier call
CacheServed ==
    /\ last.op \in Loaders /\ last.hit /\ last.outcome = "ok"
    /\ last.fetched = << >>
    /\ ncalls = 2

-----------------------------------------------------------------------------
(* C10: the result of a cache miss and of a cache hit *)

\* C10: after a call that fetched and returned, the next call with the same
\* parameters returns the same result, for every loader and for Residential and
\* Commercial
MissEqualsHit ==
    [][(/\ last.op \in Loaders \cup Sectors
        /\ last.op = last'.op /\ last.args = last'.args
        /\ last.outcome = "ok" /\ last.fetched # << >>)
            => (last'.outcome = "ok" /\ last'.result = last.result)]_vars

-----------------------------------------------------------------------------
(* C11: the attempts of the housing units fetch *)

\* the last call of Units found no cache file and fetched
UnitsFetched == last.op = "Units" /\ ~last.hit /\ last.fetched # << >>

\* C11: on a cache miss Units makes at most Units_retry attempts: when fewer
\* attempts time out, the one after them succeeds, ends the retrying and the
\* data is written to the cache; when all of them time out the timeout is raised
\* after exactly Units_retry attempts and no cache file is written
BoundedRetry ==
    UnitsFetched =>
        /\ Len(last.fetched) <= Units_retry
        /\ last.args.timeouts < Units_retry =>
              /\ Len(last.fetched) = last.args.timeouts + 1
              /\ last.outcome # "timeout"
              /\ last.key \in DOMAIN cache
        /\ last.args.timeouts >= Units_retry =>
              /\ Len(last.fetched) = Units_retry
              /\ last.outcome = "timeout"
              /\ last.key \notin DOMAIN cache

\* Units gave up after every attempt timed out
UnitsTimedOut ==
    /\ UnitsFetched /\ last.outcome = "timeout"
    /\ Len(last.fetched) = Units_retry

-----------------------------------------------------------------------------
(* C12: the county of Units *)

UnitsOps == {"Units", "resstock.Units"}

\* the last call of Units looked a county up in the table of the state
LookedUp ==
    /\ last.op \in UnitsOps /\ last.args.county # None
    /\ last.key \in DOMAIN (IF last.op = "Units" THEN cache ELSE legacy.files)

\* the table of the state the last call of Units read
StateTable == IF last.op = "Units" THEN cache[last.key] ELSE legacy.files[last.key]

\* the rows whose label starts with "." and the county
Matching(data, county) ==
    {i \in 1..Len(data.labels) : StartsWith(data.labels[i], <<".">> \o Chars[county])}

\* the column of the year asked for, the last one when none is
YearColumn(data, year) ==
    IF year = NoYear THEN Len(data.columns)
    ELSE CHOOSE j \in 1..Len(data.columns) : data.columns[j][2] = year[2]

\* C12: Units returns the count of the one row whose label starts with "." and
\* the county; when no row or more than one row does, it returns NaN, emits a
\* warning and raises no error
SingleMatch ==
    LookedUp =>
        /\ last.outcome = "ok"
        /\ IF Cardinality(Matching(StateTable, last.args.county)) = 1
           THEN last.result
                    = R(StateTable.values[CHOOSE i \in Matching(StateTable, last.args.county) : TRUE]
                                         [YearColumn(StateTable, last.args.year)])
           ELSE last.result = NaN /\ "notsingle" \in SeqRange(last.warned)

-----------------------------------------------------------------------------
(* C13: the year of the scaling driver *)

\* the year of the inventory a call asks for
AskedYear(year) == IF year = NoYear THEN Floorarea_YEAR ELSE year[2]

\* the floor areas of a county in the inventory of a year, as Floorarea returns them
AreasOf(fips, year) ==
    [j \in 1..Len(PrototypesOf(remote, fips)) |->
        [ BUILDING_TYPE |-> JoinCodes(PrototypesOf(remote, fips)[j]),
          FLOORAREA |-> R(AreaSum(remote, fips, PrototypesOf(remote, fips)[j], year)) ]]

\* C13: Floorarea and Commercial called with year=Y use the floor areas of the
\* inventory of year Y, whatever the cache holds from earlier calls; Units
\* returns the count of the column of year Y, of the last column without a year
VintageSelected ==
    /\ (/\ last.op = "Floorarea" /\ last.outcome = "ok"
        /\ last.args.state # None /\ last.args.county # None)
          => last.result.rows
                = AreasOf(CountyFIPS(last.args.state, last.args.county),
                          AskedYear(last.args.year))
    /\ (SectorTable /\ last.op = "Commercial")
          => \A bt \in SeqRange(COMstock_BUILDING_TYPES) :
                last.locals.actual[bt]
                    = AreaOf(SplitAreas(AreasOf(CountyFIPS(last.args.state, last.args.county),
                                                AskedYear(last.args.year))), bt)
    /\ (/\ last.op = "Units" /\ LookedUp
        /\ Cardinality(Matching(StateTable, last.args.county)) = 1)
          => /\ last.outcome = "ok"
             /\ last.result
                    = R(StateTable.values[CHOOSE i \in Matching(StateTable, last.args.county) : TRUE]
                                         [YearColumn(StateTable, last.args.year)])

-----------------------------------------------------------------------------
(* C14, C15: the load shapes of Industry and Agriculture *)

EnergyOps == {"Industry", "Agriculture"}

EnergySector(op) == IF op = "Industry" THEN "IND" ELSE "AGR"

\* the last call asked Industry or Agriculture for a county with a load shape
\* of the given kind
Shaped(kind) ==
    /\ last.op \in EnergyOps
    /\ last.args.state # None /\ last.args.county # None
    /\ last.args.loadshape.kind = kind

\* the annual values of the county: what the same call returns without loadshape
AnnualValues ==
    EnergyUse(EnergySector(last.op), remote, cachedir, cache,
              last.args.state, last.args.county, NoShape).result.values

\* the table whose row i is the multiplier i times the annual values
ShapeTimesAnnual(index, multipliers) ==
    [ index |-> index,
      cols  |-> ("nonelec_total_MW" :>
                    [i \in 1..Len(multipliers) |->
                        RMul(multipliers[i], AnnualValues["nonelec_total_MW"])])
             @@ ("elec_net_MW" :>
                    [i \in 1..Len(multipliers) |->
                        RMul(multipliers[i], AnnualValues["elec_net_MW"])]) ]

\* C14: with a one-column data frame F as loadshape, Industry and Agriculture
\* return a table on the index of F whose row i is F[i] times the annual
\* values of the county
FrameShapeScales ==
    (Shaped("frame") /\ Len(last.args.loadshape.columns) = 1)
        => /\ last.outcome = "ok"
           /\ last.result = ShapeTimesAnnual(last.args.loadshape.index, last.args.loadshape.cols[1])

\* the timestamps of the date range of a dict load shape
ShapeRange(loadshape) == DateRange(loadshape.start, loadshape.end, loadshape.freq)

-----------------------------------------------------------------------------
(* C16: the rows of the source whose FIPS code is no county *)

\* the last call returned the table of all the counties
AllCounties ==
    /\ last.op \in EnergyOps /\ last.outcome = "ok"
    /\ last.args.state = None /\ last.args.county = None

\* the rows of the source file the last call read
SourceRows == cache[last.key]

\* the valid county a FIPS code belongs to: the greatest valid code not above it
\* (0 when there is none)
Preceding(fips) ==
    LET below == {c \in KnownFIPS : c <= fips}
    IN  IF below = {} THEN 0 ELSE CHOOSE c \in below : \A d \in below : d <= c

\* the load of the rows of the source that belong to a county
LoadOf(sector, rows, fips, g) ==
    LET codes == Ascending({f \in SourceFIPS(rows) : Preceding(f) = fips})
    IN  SumSeq([k \in 1..Len(codes) |->
                   GroupMW(sector, SelectSeq(rows, LAMBDA r : r.fips_matching = codes[k]), g)],
               1, Zero)

\* C16: the load of a row of the source whose FIPS code is no valid county is
\* added to the valid county with the greatest FIPS code below it; the load of
\* a county is the load of its own rows and of those rows, no row is dropped
\* and none is added to a county that follows it
AttributedToPreceding ==
    AllCounties =>
        \A i \in 1..Len(last.result.index) :
            \A g \in SeqRange(last.result.columns) :
                last.result.values[i][g]
                    = LoadOf(EnergySector(last.op), SourceRows,
                             CountyFIPS(last.result.index[i][1], last.result.index[i][2]), g)

-----------------------------------------------------------------------------
(* C17, C18: the command line *)

\* an error is raised by the constructor of the data or by the output
MainRaises(args) ==
    \/ Construct(SourceOf(args), remote, cachedir, cache, args).outcome # "ok"
    \/ Output(args).error # None

\* the error raised, the one of the constructor first
MainError(args) ==
    IF Construct(SourceOf(args), remote, cachedir, cache, args).outcome # "ok"
    THEN Construct(SourceOf(args), remote, cachedir, cache, args).outcome
    ELSE Output(args).error

\* main returned the code
MainReturned(call, code) == call.outcome = "ok" /\ call.result.returns = <<code>>

\* C17 as stated: main returns 0 exactly when the data was written; when an
\* error is raised, an invalid sector included, it prints one line and returns
\* 1 without --debug and raises the error with --debug
ExitCodesAnyError ==
    [][ last'.op = "main" =>
          /\ MainReturned(last', E_OK) <=> last'.result.written # << >>
          /\ (last'.args.sector \notin SectorChoices \/ MainRaises(last'.args))
                => IF last'.args.debug
                   THEN last'.outcome # "ok" /\ last'.result.returns = << >>
                   ELSE /\ MainReturned(last', E_FAILED)
                        /\ last'.result.printed = <<"ERROR [loads]">> ]_vars

\* C17: main returns 0 exactly when the data was written; when the constructor
\* of the data or the output raises an error, main prints one line and returns
\* 1 without --debug and raises that error with --debug; a sector that is not
\* one of the choices ends main with SystemExit after the usage message, with
\* and without --debug
ExitCodes ==
    [][ last'.op = "main" =>
          /\ MainReturned(last', E_OK) <=> last'.result.written # << >>
          /\ MainReturned(last', E_OK)
                <=> (last'.args.sector \in SectorChoices /\ ~MainRaises(last'.args))
          /\ (last'.args.sector \in SectorChoices /\ MainRaises(last'.args))
                => IF last'.args.debug
                   THEN /\ last'.outcome = MainError(last'.args)
                        /\ last'.result.returns = << >>
                        /\ last'.result.printed = << >>
                   ELSE /\ MainReturned(last', E_FAILED)
                        /\ last'.result.printed = <<"ERROR [loads]">>
          /\ last'.args.sector \notin SectorChoices
                => /\ last'.outcome = "SystemExit"
                   /\ last'.result.returns = << >> ]_vars

\* main returned 1 for a state that does not exist, and raised with --debug
MainFailed ==
    /\ last.op = "main" /\ last.args.state = "ZZ"
    /\ IF last.args.debug THEN last.outcome = "AssertionError"
       ELSE MainReturned(last, E_FAILED)

\* the class whose table the command outputs for a sector
SectorClass ==
       ("residential" :> "Residential") @@ ("commercial" :> "Commercial")
    @@ ("industrial" :> "Industry") @@ ("agricultural" :> "Agriculture")
    @@ ("weather" :> "Weather")

\* the class of the raw data of a sector
RawClass == ("residential" :> "RESstock") @@ ("commercial" :> "COMstock")

\* the last call was main for a sector and a county of the fips package whose
\* building types the floor area inventory covers, with a building type of the
\* sector if any, and an output main accepts
ValidCommand ==
    /\ last.op = "main"
    /\ remote.coverage = "full"
    /\ last.args.sector \in SectorChoices
    /\ CountyKnown(last.args.state, last.args.county)
    /\ last.args.building_type # None
          => /\ last.args.sector \in DOMAIN RawClass
             /\ last.args.building_type
                    \in SeqRange(IF last.args.sector = "residential"
                                 THEN RESstock_BUILDING_TYPES ELSE COMstock_BUILDING_TYPES)
    /\ Output(last.args).error = None

\* C18: for each of the five sectors and a valid state and county, main builds
\* the table of the sector, or the raw data of the building type when one is
\* given, writes it to the output and returns 0
SectorsServed ==
    ValidCommand =>
        /\ MainReturned(last, E_OK)
        /\ Len(last.result.written) = 1
        /\ last.result.written[1].source
                = IF last.args.building_type # None THEN RawClass[last.args.sector]
                  ELSE SectorClass[last.args.sector]

-----------------------------------------------------------------------------
(* C19: clearing the cache *)

ClearOps == {"cache_clear", "loads.cache_clear"}

\* C19: cache_clear, called as loads.cache_clear or as loads.cache.cache_clear,
\* raises nothing, deletes every file of the cache folder but those whose
\* deletion fails, with one warning for each of these; the next call of a
\* loader for a file that was deleted is a miss, and fetches when it succeeds
ClearThenMiss ==
    [][ /\ last'.op \in ClearOps
            => /\ last'.outcome = "ok"
               /\ DOMAIN cache' = DOMAIN cache \cap last'.args.failing
               /\ Len(last'.warned) = Cardinality(DOMAIN cache \cap last'.args.failing)
        /\ (last.op \in ClearOps /\ last'.op \in Loaders /\ last'.key \notin last.args.failing)
            => /\ ~last'.hit
               /\ last'.outcome = "ok" => last'.fetched # << >> ]_vars

-----------------------------------------------------------------------------
(* C20: two processes and one cache file *)

\* C20: the access to the cache is not synchronized: a process that has not
\* finished can always take its next step, whatever the other process is
\* doing, so both can fetch and write one path, and one can read the file
\* while the other is writing it
Unsynchronized == \A p \in Procs : pc[p] # "done" => ENABLED Step(p)

\* both processes saw the miss, fetched, and wrote the same path
BothFetchedAndWrote ==
    \A p \in Procs :
        /\ proc[p].saw = "miss" /\ proc[p].fetched
        /\ proc[p].pos = Blocks /\ pc[p] = "done"

\* a process found the file and read it before the other had written all of it
ReadWhileWritten ==
    \E p \in Procs : \E q \in Procs \ {p} :
        /\ proc[p].saw = "hit" /\ pc[p] = "done" /\ proc[p].got # <<Whole>>
        /\ pc[q] = "write"

-----------------------------------------------------------------------------
(* C21: Units of a state *)

\* the last call asked Units for a state, without a county, and the table of
\* the state has more than one row
AskedState ==
    /\ last.op = "Units" /\ last.args.county = None
    /\ last.key \in DOMAIN cache
    /\ Len(cache[last.key].labels) > 1

\* the row of the table that is labelled with the name of the state
StateRow(data, state) == CHOOSE i \in 1..Len(data.labels) : data.labels[i] = <<StateNames[state]>>

\* C21: Units(state) without a county returns the housing units of the whole
\* state, a number and not NaN
StatewideCount ==
    AskedState =>
        /\ last.outcome = "ok"
        /\ ~IsNaN(last.result)
        /\ last.result
                = R(cache[last.key].values[StateRow(cache[last.key], last.args.state)]
                                          [YearColumn(cache[last.key], last.args.year)])

-----------------------------------------------------------------------------
(* C22: the per-unit columns of Residential *)

\* f"{btype}_{ctype}_pu" of the tests: building type, carrier and part to the
\* name of the per-unit column
PerUnit ==
    [ RSD |->
        [ elec |-> [total |-> "RSD_elec_total_pu", baseload |-> "RSD_elec_baseload_pu", cooling |-> "RSD_elec_cooling_pu", heating |-> "RSD_elec_heating_pu"],
          nonelec |-> [total |-> "RSD_nonelec_total_pu", baseload |-> "RSD_nonelec_baseload_pu", cooling |-> "RSD_nonelec_cooling_pu", heating |-> "RSD_nonelec_heating_pu"] ],
      RSA |->
        [ elec |-> [total |-> "RSA_elec_total_pu", baseload |-> "RSA_elec_baseload_pu", cooling |-> "RSA_elec_cooling_pu", heating |-> "RSA_elec_heating_pu"],
          nonelec |-> [total |-> "RSA_nonelec_total_pu", baseload |-> "RSA_nonelec_baseload_pu", cooling |-> "RSA_nonelec_cooling_pu", heating |-> "RSA_nonelec_heating_pu"] ],
      RSM |->
        [ elec |-> [total |-> "RSM_elec_total_pu", baseload |-> "RSM_elec_baseload_pu", cooling |-> "RSM_elec_cooling_pu", heating |-> "RSM_elec_heating_pu"],
          nonelec |-> [total |-> "RSM_nonelec_total_pu", baseload |-> "RSM_nonelec_baseload_pu", cooling |-> "RSM_nonelec_cooling_pu", heating |-> "RSM_nonelec_heating_pu"] ],
      RMM |->
        [ elec |-> [total |-> "RMM_elec_total_pu", baseload |-> "RMM_elec_baseload_pu", cooling |-> "RMM_elec_cooling_pu", heating |-> "RMM_elec_heating_pu"],
          nonelec |-> [total |-> "RMM_nonelec_total_pu", baseload |-> "RMM_nonelec_baseload_pu", cooling |-> "RMM_nonelec_cooling_pu", heating |-> "RMM_nonelec_heating_pu"] ],
      RMH |->
        [ elec |-> [total |-> "RMH_elec_total_pu", baseload |-> "RMH_elec_baseload_pu", cooling |-> "RMH_elec_cooling_pu", heating |-> "RMH_elec_heating_pu"],
          nonelec |-> [total |-> "RMH_nonelec_total_pu", baseload |-> "RMH_nonelec_baseload_pu", cooling |-> "RMH_nonelec_cooling_pu", heating |-> "RMH_nonelec_heating_pu"] ] ]

PerUnitParts == {"baseload", "cooling", "heating"}

ResidentialTable == last.op = "Residential" /\ last.outcome = "ok"

\* round(x, 6) == 1 of a rational x
RoundsToOne(x) ==
    /\ IsFinite(x)
    /\ 2 * 1000000 * x[1] >= 1999999 * x[2]
    /\ 2 * 1000000 * x[1] <= 2000001 * x[2]

\* C22: the table of Residential has, for every building type and carrier, the
\* per-unit columns <building>_<carrier>_total_pu, equal to 1 in every row, and
\* _baseload_pu, _cooling_pu and _heating_pu, adding up to 1 in every row
PerUnitColumns ==
    ResidentialTable =>
        \A bt \in SeqRange(RESstock_BUILDING_TYPES) : \A carrier \in Carriers :
            /\ \A part \in PerUnitParts \cup {"total"} :
                  PerUnit[bt][carrier][part] \in DOMAIN last.result.cols
            /\ \A k \in Rows(last.result) :
                  /\ RoundsToOne(last.result.cols[PerUnit[bt][carrier]["total"]][k])
                  /\ RoundsToOne(RAdd(RAdd(last.result.cols[PerUnit[bt][carrier]["baseload"]][k],
                                          last.result.cols[PerUnit[bt][carrier]["cooling"]][k]),
                                     last.result.cols[PerUnit[bt][carrier]["heating"]][k]))

-----------------------------------------------------------------------------
(* C23: the stock-driver column *)

\* the csv file the last call of RESstock or COMstock read
StockRead == StockCsv[SectorOf(last.op)][cache[last.key]]

\* the maximum of units_represented / floor_area_represented of that file
DriverRead == SeqMax(Represented(SectorOf(last.op), StockRead), 1, NaN)

\* C23: the column units of RESstock and floor_area of COMstock holds in every
\* row the maximum of the source's stock column, at every frequency, and a
\* source column that is not constant is warned about
DriverColumnIsMax ==
    StockTable =>
        /\ \A k \in Rows(last.result) :
              last.result.cols[DriverName(SectorOf(last.op))][k] = DriverRead
        /\ SeqMin(Represented(SectorOf(last.op), StockRead), 1, NaN) # DriverRead
              => "changes" \in SeqRange(last.warned)

-----------------------------------------------------------------------------
(* C24: COLLECT sorts the canonical columns into the categories *)

\* the canonical columns of electricity: the values of COLUMNS whose source
\* column is out.electricity.*
ElecColumns ==
    [ RES |-> {"elec_bathfan", "elec_ceilingfan", "elec_dryer", "elec_washer",
               "elec_cooking", "elec_cooling", "elec_dishwasher", "elec_holidaylight",
               "elec_extlighting", "elec_extrarefrigerator", "elec_coolingfan",
               "elec_heatingfan", "elec_freezer", "elec_garagelighting", "elec_heating",
               "elec_heatingsupplement", "elec_hottubheater", "elec_hottubpump",
               "elec_housefan", "elec_interiorlighting", "elec_plugs", "elec_poolheater",
               "elec_poolpump", "elec_coolingpump", "elec_heatingpump", "elec_pv",
               "elec_rangefan", "elec_recircpump", "elec_refrigerator", "elec_total",
               "elec_vehicle", "elec_watersystems", "elec_wellpump"},
      COM |-> {"elec_cooling", "elec_exteriorlights", "elec_fans", "elec_heatrecovery",
               "elec_heatrejection", "elec_heating", "elec_equipment",
               "elec_interiorlights", "elec_pumps", "elec_refrigeration",
               "elec_watersystems", "elec_total"} ]

\* the canonical columns of the carrier totals: the values of COLUMNS whose
\* source column is out.<fuel>.total.*
CarrierTotals ==
    [ RES |-> {"elec_total", "oil_total", "gas_total", "lng_total", "wood_total"},
      COM |-> {"district_totalcooling", "district_totalheating", "elec_total",
               "gas_total", "other_total"} ]

CarrierOf(sector, column) == IF column \in ElecColumns[sector] THEN "elec" ELSE "nonelec"

\* the categories of the end uses of a carrier
EndUseCategories(carrier) ==
    IF carrier = "elec" THEN {"elec_baseload", "elec_cooling", "elec_heating", "elec_dg"}
    ELSE {"nonelec_baseload", "nonelec_cooling", "nonelec_heating", "nonelec_dg"}

\* the categories of COLLECT that list a column
ListedIn(collect, column) == {a \in DOMAIN collect : column \in collect[a]}

\* COLLECT of a sector sorts the canonical columns of the sector
SortsColumns(sector) ==
    /\ \A a \in DOMAIN SectorCollect(sector) : \A b \in DOMAIN SectorCollect(sector) :
          a # b => SectorCollect(sector)[a] \cap SectorCollect(sector)[b] = {}
    /\ \A a \in DOMAIN SectorCollect(sector) :
          SectorCollect(sector)[a] \subseteq Range(SectorColumns(sector))
    /\ \A column \in Range(SectorColumns(sector)) \ (CarrierTotals[sector] \cup {"total"}) :
          /\ Cardinality(ListedIn(SectorCollect(sector), column)) = 1
          /\ ListedIn(SectorCollect(sector), column)
                \subseteq EndUseCategories(CarrierOf(sector, column))

\* C24: in Residential.COLLECT and Commercial.COLLECT no column is listed in two
\* categories, every listed column is a value of the loader's COLUMNS, and every
\* value of COLUMNS that is neither a carrier total nor the site-energy total is
\* listed in exactly one category, one of the end-use categories of its carrier;
\* stated of the COLLECT of every call of Residential and of Commercial
CollectSortsColumns ==
    last.op \in Sectors => SortsColumns(SectorOf(last.op))

\* a table of Residential or Commercial with a baseload collected for both carriers
CollectedBaseloads ==
    /\ SectorTable
    /\ \E k \in Rows(last.result) :
          /\ RLess(Zero, last.result.cols["elec_baseload_MW"][k])
          /\ RLess(Zero, last.result.cols["nonelec_baseload_MW"][k])

-----------------------------------------------------------------------------
(* C25: the building-type codes of Floorarea *)

FloorareaTable == last.op = "Floorarea" /\ last.outcome = "ok"

\* the floor-area categories that translate to a code
CategoriesOfCode(bt) ==
    {x \in DOMAIN Floorarea_BUILDING_TYPES : bt \in SeqRange(Floorarea_BUILDING_TYPES[x])}

\* C25: every code in the BUILDING_TYPE column of a table of Floorarea is one of
\* the 14 codes of COMstock.BUILDING_TYPES, every one of the 14 codes is the
\* translation of exactly one floor-area category, and only no_match translates
\* to no code
FloorareaCodesAreCOMstock ==
    FloorareaTable =>
        /\ \A i \in 1..Len(last.result.rows) :
              SeqRange(last.result.rows[i].BUILDING_TYPE) \subseteq SeqRange(COMstock_BUILDING_TYPES)
        /\ \A bt \in SeqRange(COMstock_BUILDING_TYPES) : Cardinality(CategoriesOfCode(bt)) = 1
        /\ \A x \in DOMAIN Floorarea_BUILDING_TYPES :
              Floorarea_BUILDING_TYPES[x] = << >> <=> x = "no_match"

-----------------------------------------------------------------------------
(* C26: the floor area of a category that has several codes *)

CommercialTable == last.op = "Commercial" /\ last.outcome = "ok"

\* the rows of Floorarea the last call of Commercial read: the call left them in
\* the cache
ActualAreas ==
    Floorarea(remote, TRUE, cache, last.args.state, last.args.county, last.args.year).result.rows

\* the rows of split_areas a row of actual_areas was split into
SplitsOf(split_areas, area) ==
    SelectSeq(split_areas, LAMBDA row : row.SPLITS = area.BUILDING_TYPE)

\* the codes of a row of actual_areas that Commercial loads
CodesLoaded(area) == SeqRange(area.BUILDING_TYPE) \cap SeqRange(COMstock_BUILDING_TYPES)

\* the floor areas of the rows a row of actual_areas was split into add up to
\* the area of that row
SplitsAddUp(splits, area) ==
    SumSeq([i \in 1..Len(splits) |-> splits[i].FLOORAREA], 1, Zero) = area.FLOORAREA

\* the driver of every code Commercial loads is the fraction of the area where
\* the row of split_areas has one, else the area over the number of codes
ByFractionOrCount(actual_areas, split_areas, actual) ==
    \A i \in 1..Len(actual_areas) :
        /\ \A j \in 1..Len(split_areas) :
              /\ split_areas[j].SPLITS = actual_areas[i].BUILDING_TYPE
              /\ split_areas[j].BUILDING_TYPE \in CodesLoaded(actual_areas[i])
              => actual[split_areas[j].BUILDING_TYPE]
                    = IF "FRACTION" \in DOMAIN split_areas[j]
                      THEN RMul(split_areas[j].FRACTION, actual_areas[i].FLOORAREA)
                      ELSE RDiv(actual_areas[i].FLOORAREA,
                                R(Len(actual_areas[i].BUILDING_TYPE)))
        /\ SplitsAddUp(SplitsOf(split_areas, actual_areas[i]), actual_areas[i])

\* the driver of every code Commercial loads is the area over the number of codes
ByCount(actual_areas, split_areas, actual) ==
    \A i \in 1..Len(actual_areas) :
        /\ \A bt \in CodesLoaded(actual_areas[i]) :
              actual[bt] = RDiv(actual_areas[i].FLOORAREA,
                                R(Len(actual_areas[i].BUILDING_TYPE)))
        /\ SplitsAddUp(SplitsOf(split_areas, actual_areas[i]), actual_areas[i])

\* C26, as stated: the actual driver of each of the k codes of a category of area
\* A is A / k, unless a floor-area fraction is available for the code, and then
\* it is that fraction of A; the drivers of the k codes add up to A
SplitByFractionOrCount ==
    CommercialTable =>
        ByFractionOrCount(ActualAreas, SplitAreas(ActualAreas), last.locals.actual)

\* C26, amended: the actual driver of each of the k codes of a category of area A
\* is A / k in every case (the fraction split_areas records beside it is not
\* used), and the drivers of the k codes add up to A
SplitByCount ==
    CommercialTable => ByCount(ActualAreas, SplitAreas(ActualAreas), last.locals.actual)

\* the floor area of the offices went to three codes
InThree(actual_areas, split_areas, actual) ==
    \E i \in 1..Len(actual_areas) :
        /\ actual_areas[i].BUILDING_TYPE = <<"CSO", "CMO", "CLO">>
        /\ RLess(Zero, actual_areas[i].FLOORAREA)
        /\ RMul(R(3), actual["CMO"]) = actual_areas[i].FLOORAREA
        /\ Len(SplitsOf(split_areas, actual_areas[i])) = 3

\* a table of Commercial for a county whose office floor area went to three codes
OfficeSplitInThree ==
    CommercialTable /\ InThree(ActualAreas, SplitAreas(ActualAreas), last.locals.actual)

-----------------------------------------------------------------------------
(* C27: a building type without floor area *)

\* the COMstock building types no row of actual_areas has the code of
Uncovered(actual_areas) ==
    {bt \in SeqRange(COMstock_BUILDING_TYPES) :
        \A i \in 1..Len(actual_areas) : bt \notin SeqRange(actual_areas[i].BUILDING_TYPE)}

\* the last call was Commercial for a valid county, and the floor-area table it
\* read has rows of the county but none of some COMstock building type
CommercialUncovered ==
    /\ last.op = "Commercial"
    /\ last.args.state \in States /\ last.args.county \in CountiesOf(last.args.state)
    /\ FloorareaFile \in DOMAIN cache
    /\ Floorarea(remote, TRUE, cache, last.args.state, last.args.county,
                 last.args.year).outcome = "ok"
    /\ Uncovered(ActualAreas) # {}

\* the building types contribute nothing: their driver is zero
ContributeZero(types, actual) == \A bt \in types : actual[bt] = Zero

\* C27: Commercial for a valid county whose floor-area table has no row of some
\* COMstock building type returns its table, and that building type contributes
\* zero to every category
UncoveredTypeIsZero ==
    CommercialUncovered =>
        /\ last.outcome = "ok"
        /\ ContributeZero(Uncovered(ActualAreas), last.locals.actual)

-----------------------------------------------------------------------------
(* C28: the nationwide floor-area cache and its five regional files *)

RegionNumbers == 0..(Len(Regions) - 1)

\* the regions a cache has no file of, in the order of the loop
MissingRegions(c) ==
    SelectSeq([i \in 1..Len(Regions) |-> i - 1], LAMBDA n : RegionFile(n) \notin DOMAIN c)

\* the urls of the regions ns in the inventory of the year asked for
RegionUrls(ns, year_) ==
    [i \in 1..Len(ns) |->
        FloorareaUrl(Regions[ns[i] + 1], IF year_ = NoYear THEN Floorarea_YEAR ELSE year_[2])]

\* the regional files of c are in d as they are in c
RegionsKept(c, d) ==
    \A n \in RegionNumbers :
        RegionFile(n) \in DOMAIN c => RegionFile(n) \in DOMAIN d /\ d[RegionFile(n)] = c[RegionFile(n)]

\* the rows of the five regional files of c in the order of the loop
AllRegions(c) == Concat([i \in 1..Len(Regions) |-> c[RegionFile(i - 1)]], 1, << >>)

\* a call of Floorarea in which the download of a region failed: no nationwide
\* file, the regional files of before and those of the regions before the
\* failing one are there
FailedDownload(c, d, call) ==
    /\ FloorareaFile \notin DOMAIN d
    /\ RegionsKept(c, d)
    /\ \E k \in 1..Len(MissingRegions(c)) :
          /\ call.fetched = RegionUrls(SubSeq(MissingRegions(c), 1, k), call.args.year)
          /\ \A n \in RegionNumbers :
                RegionFile(n) \in DOMAIN d <=>
                    RegionFile(n) \in DOMAIN c \/ n \in SeqRange(SubSeq(MissingRegions(c), 1, k - 1))

\* a call of Floorarea without a nationwide file whose downloads were answered:
\* only the missing regions are downloaded, and the nationwide file is the five
\* regional files one after the other
CompletedCache(c, d, call) ==
    /\ call.fetched = RegionUrls(MissingRegions(c), call.args.year)
    /\ RegionsKept(c, d)
    /\ \A n \in RegionNumbers : RegionFile(n) \in DOMAIN d
    /\ FloorareaFile \in DOMAIN d
    /\ d[FloorareaFile] = AllRegions(d)

\* a call of Floorarea with the nationwide file: nothing is downloaded, the cache
\* stays as it is, and the result is that of a cache with the nationwide file alone
NationwideOnly(c, d, call) ==
    /\ call.fetched = << >>
    /\ d = c
    /\ call.outcome # "URLError"
    /\ call.result = Floorarea(remote, TRUE, (FloorareaFile :> c[FloorareaFile]),
                               call.args.state, call.args.county, call.args.year).result

\* C28: a call of Floorarea in which the download of a region fails writes no
\* nationwide file and leaves the regional files written; a call without a
\* nationwide file whose downloads are answered downloads only the regions
\* without a file and writes the nationwide file as the five regions in the order
\* of the loop; with the nationwide file no regional file is read or downloaded
RegionalCache ==
    [][ last'.op = "Floorarea" =>
            IF FloorareaFile \in DOMAIN cache THEN NationwideOnly(cache, cache', last')
            ELSE IF last'.outcome = "URLError" THEN FailedDownload(cache, cache', last')
            ELSE CompletedCache(cache, cache', last') ]_vars

\* a call of Floorarea completed the cache that a failed call had left with the
\* files of the first two regions: it downloaded the other three
CompletedAfterFailure ==
    /\ last.op = "Floorarea" /\ last.outcome = "ok"
    /\ Len(last.fetched) = 3
    /\ FloorareaFile \in DOMAIN cache
    /\ cache[FloorareaFile] = AllRegions(cache)

-----------------------------------------------------------------------------
(* C29: the all zeros file stays in the cache *)

\* the file of the key in the cache c is the all zeros file of a failed download
FallbackCached(c, key) == key \in DOMAIN c /\ Len(c[key]) = 2

\* a call of RESstock or COMstock whose download failed left the all zeros file
\* of its frequency under its key
FallbackStored(d, call) ==
    "nodata" \in SeqRange(call.warned) =>
        /\ Len(call.fetched) = 1
        /\ call.key \in DOMAIN d
        /\ d[call.key] = ZerosName(call.args.freq)

\* a call of RESstock or COMstock for a key with the all zeros file: nothing is
\* fetched, nothing is warned of missing data, the file stays, and the table is
\* the one read from that file at the frequency of the call, whatever the remote
\* source has
FallbackServed(c, d, call) ==
    /\ call.fetched = << >>
    /\ "nodata" \notin SeqRange(call.warned)
    /\ d = c
    /\ call.outcome = "ok"
    /\ call.result = StockLoads[SectorOf(call.op)][c[call.key], call.args.freq].result
    /\ \A rem \in Remotes :
          Stock(SectorOf(call.op), rem, TRUE, c, call.args.state, call.args.county,
                call.args.building_type, call.args.freq).result = call.result

\* C29: a call of RESstock or COMstock whose download fails with an HTTP error
\* stores the all zeros table as the file of its key, and every later call for
\* that key, as long as the file is in the cache, fetches nothing, does not warn
\* of missing data and returns the table read from that file, also when the
\* remote source has the data and when it asks for another frequency
FallbackPersists ==
    [][ last'.op \in StockLoaders =>
            /\ FallbackStored(cache', last')
            /\ FallbackCached(cache, last'.key) => FallbackServed(cache, cache', last') ]_vars

\* a call read the all zeros file that a call at another frequency had written
FallbackServedAtOtherFreq ==
    /\ StockTable /\ last.hit
    /\ FallbackCached(cache, last.key)
    /\ cache[last.key] # ZerosName(last.args.freq)

-----------------------------------------------------------------------------
(* C30: the total of the source in the table of all the counties *)

\* the sum of a column over the rows of the table
ColumnTotal(table, g) ==
    SumSeq([i \in 1..Len(table.index) |-> table.values[i][g]], 1, Zero)

\* the rows of the table of the counties the source has no row of
WithoutSourceRow(table, rows) ==
    {i \in 1..Len(table.index) :
        CountyFIPS(table.index[i][1], table.index[i][2]) \notin SourceFIPS(rows)}

\* C30: in the table of all the counties of Industry and of Agriculture, the sum
\* of each column over the rows is the sum of the converted fuels of that group
\* over the rows of the source, and a county without a row of the source has 0
TotalConserved ==
    AllCounties =>
        \A g \in SeqRange(last.result.columns) :
            /\ ColumnTotal(last.result, g) = GroupMW(EnergySector(last.op), SourceRows, g)
            /\ \A i \in WithoutSourceRow(last.result, SourceRows) :
                  last.result.values[i][g] = Zero

====
